---------------------------- MODULE Spec2Model ----------------------------
(***************************************************************************)
(* A model of the go_agent workflow engine (package go_agent): the node    *)
(* lifecycle, the router, the synchronous flow orchestrator, the retry     *)
(* executor, the batch executor and the parallel batch executor.           *)
(*                                                                         *)
(* Go has no virtual dispatch through embedding.  A method of BaseNode,    *)
(* Node or AsyncNode that calls b.Prep, n.Exec, a.ExecAsync ... calls the  *)
(* method of its own receiver type (or the one promoted from the type it   *)
(* embeds), never the method a user type that embeds it declares under     *)
(* the same name.  The model keeps, for every node, both its dynamic type  *)
(* (kind) and the behaviour of the methods its type declares (Own...), and *)
(* resolves every call of the engine the way the Go compiler resolves it.  *)
(***************************************************************************)
EXTENDS Integers, Sequences, FiniteSets, TLC

\* ------------------------------------------------------------------ bounds
MaxWires == 2          \* Next calls made while the graph is wired
MaxSteps == 3          \* iterations of the orchestrate loop that are explored
MaxRetry == 3          \* largest maxRetries a node is constructed with
MaxCalls == 2          \* calls of a retry executor on the same node
MaxLen == 3            \* longest list handed to a batch executor
MaxPar == 2            \* longest list handed to the parallel batch executor
MaxOver == 2           \* longest list of overrides a batch flow's Prep returns

\* ------------------------------------------------------------------ values
Nil == "nil"           \* Go's nil interface value
NoNode == "none"       \* no node: an absent map entry / a nil node
Nodes == {"A", "B"}
FlowId == "F"          \* the Flow object itself, as the receiver of a lifecycle call

\* Dynamic types a node value can have when it is stored in an interface{}:
\* a *BaseNode as NewBaseNode returns it, or a pointer to a user struct that
\* embeds *BaseNode and declares its own Prep/Exec/Post (startTestNode,
\* DecideAction, ...).
Kinds == {"BaseNode", "Custom"}

\* Strings handed to Next and GetNextNode as the action.
ActionArgs == {"", "default", "x", "<nil>"}

\* What the Post declared by a user node type returns (node2TestNode.Post,
\* DecideAction.Post, ...): the action the flow is wired under.
CustomPostAction == "x"

VARIABLES
    kind,        \* kind[n]: dynamic type of node n
    successors,  \* successors[n][a]: BaseNode.successors of n, NoNode when absent
    wires,       \* the Next calls made so far, oldest first
    params,      \* params[n]: BaseNode.params of n
    startNode,   \* Flow.startNode
    fpc,         \* "build", "running" (inside orchestrate's loop), "done", "async"
    entry,       \* which operation of the flow was called
    curr,        \* orchestrate: curr
    lastAction,  \* orchestrate: lastAction
    steps,       \* iterations of orchestrate's loop made
    calls,       \* lifecycle methods invoked so far: <<receiver, phase, implementation>>,
                 \* and the warnings Run / RunAsync logged: <<receiver, "log", line>>
    flowResult   \* the value the called operation returned

flowVars == <<kind, successors, wires, params, startNode, fpc, entry, curr,
              lastAction, steps, calls, flowResult>>

\* The retry executors: Node.execInternal and AsyncNode.execAsyncInternal.
VARIABLES
    rKind,       \* dynamic type of the node: "Plain" (*Node, *AsyncNode) or "Custom"
    maxRetries,  \* Node.maxRetries
    wait,        \* Node.wait
    ownFaults,   \* ownFaults[k]: the Exec the node's type declares panics at its k-th call
    curRetry,    \* Node.curRetry (sync), the local i (async)
    rpc,         \* "idle", "loop", "returned"
    rMode,       \* "sync" or "async": which executor the current call runs
    rCaller,     \* who called the executor: "direct", "batch" or "task"
    prepRes,     \* the argument of the current call
    execLog,     \* Exec invocations of the current call: <<implementation, attempt, panicked, value>>
    fbLog,       \* errors handed to ExecFallback in the current call
    sleeps,      \* time.Sleep(wait) calls of the current call
    rResult,     \* the value execInternal returned
    rChan,       \* async: the buffered result channel (capacity 1)
    rClosed,     \* async: the result channel is closed
    rCalls,      \* calls of the executor made so far
    execTotal    \* Exec invocations made so far, over all calls

retryVars == <<rKind, maxRetries, wait, ownFaults, curRetry, rpc, rMode, rCaller, prepRes,
               execLog, fbLog, sleeps, rResult, rChan, rClosed, rCalls, execTotal>>

\* BatchNode.execInternal.
VARIABLES
    bItems,      \* the argument items: [tag, list]
    bIdx,        \* the index of the range loop (1-based)
    bResults,    \* results
    bpc,         \* "idle", "loop", "waiting" (inside b.Node.execInternal), "returned"
    bChan,       \* AsyncBatchNode: the returned channel result (capacity 1)
    bClosed,     \* AsyncBatchNode: result is closed
    bTrace       \* AsyncBatchNode: <<"start", i>> and <<"recv", i>>, in the order they happen

batchVars == <<bItems, bIdx, bResults, bpc, bChan, bClosed, bTrace>>

\* AsyncParallelBatchNode.execAsyncInternal: the launching goroutine, one task
\* goroutine per item (each with the goroutine of its own retry executor), the
\* collecting goroutine, and the caller receiving from the returned channel.
VARIABLES
    pItems,        \* the argument items: [tag, list]
    lpc,           \* launcher: "idle", "check", "spawn", "collector", "closing", "done"
    li,            \* launcher: index of the range loop (1-based)
    tpc,           \* tpc[i]: task i is "unborn", "new", "inner" (waiting on resChan), "done"
    tI,            \* tI[i]: the local i of task i's retry goroutine
    tChan,         \* tChan[i]: resChan of task i (capacity 1)
    tClosed,       \* tClosed[i]: resChan of task i is closed
    tExecs,        \* tExecs[i]: ExecAsync invocations: <<implementation, panicked>>
    slotChans,     \* resultChans[i] (capacity 1)
    wg,            \* the WaitGroup counter
    cpc,           \* collector: "none", "waiting", "gathered", "published", "panicked"
    results,       \* results
    resultBuf,     \* the returned channel result (capacity 1)
    resultClosed,  \* result is closed
    received       \* what the caller received from result: [tag, list]

parVars == <<pItems, lpc, li, tpc, tI, tChan, tClosed, tExecs, slotChans, wg, cpc, results,
             resultBuf, resultClosed, received>>

\* The goroutines and channels of AsyncNode.RunAsync, AsyncNode.runAsyncInternal,
\* AsyncFlow.runAsyncInternal and AsyncFlow.orchestrateAsync.
VARIABLES
    aRecv,         \* the receiver of the call: NodeId, FlowId or a node of the graph
    hpc,           \* RunAsync's goroutine: "none", "started", "waiting", "done"
    runAsyncChan,  \* result of RunAsync (capacity 1)
    runAsyncClosed,
    ipc,           \* runAsyncInternal's goroutine: "none", "started", "waiting", "done"
    iPrep,         \* runAsyncInternal: prepRes
    internalChan,  \* result of runAsyncInternal (capacity 1)
    internalClosed,
    opc,           \* orchestrateAsync's goroutine: "none", "started", "running", "done"
    orchChan,      \* result of orchestrateAsync (capacity 1)
    orchClosed,
    sent,          \* every value sent on the channel the called operation returned
    postArgs,      \* arguments of the Post / PostAsync calls: <<receiver, prepRes, execRes>>
    got            \* what the caller received from the returned channel, oldest first

asyncVars == <<aRecv, hpc, runAsyncChan, runAsyncClosed, ipc, iPrep, internalChan,
               internalClosed, opc, orchChan, orchClosed, sent, postArgs, got>>

\* BatchFlow.runInternal, AsyncBatchFlow.runAsyncInternal and
\* AsyncParallelBatchFlow.runAsyncInternal.
VARIABLES
    fKind,         \* dynamic type of the batch flow: "Plain" or "Custom"
    ownOverrides,  \* what the Prep / PrepAsync a Custom batch flow declares returns
    fParams,       \* the flow's own params
    runs           \* the flow runs made: the params of each, in the order they started

batchFlowVars == <<fKind, ownOverrides, fParams, runs>>

\* The research agent of the example: the replies of its completion
\* collaborator, the shared store, and the calls made on the methods its node
\* types declare.
VARIABLES
    decisions,     \* decisions[i]: what the i-th reply of the LLM asks for
    visits,        \* replies consumed so far
    shared,        \* the shared store: [search_query, context, error, answer], "" when absent
    ownLog         \* calls of the example's own methods: <<node, method, execRes, action returned>>

researchVars == <<decisions, visits, shared, ownLog>>

\* Concurrent runs of orchestrateAsync over the same node objects, as the
\* tasks of AsyncParallelBatchFlow.runAsyncInternal start them.
VARIABLES
    xpc,           \* xpc[r]: run r is "none", "at" (top of the loop), "set" (SetParams done), "done"
    xcurr,         \* xcurr[r]: curr of run r
    xseen,         \* xseen[r]: <<node, phase, the node's params then, the store the phase got>>
    xstore,        \* xstore[r]: the store run r was called with
    content        \* content[st]: what store st holds: "empty" or "written"

runVars == <<xpc, xcurr, xseen, xstore, content>>

\* SentLlmPrompt of the example: the completion client it calls and the loop
\* of its attempts.
VARIABLES
    modelNil,      \* the argument model is nil
    ctxNil,        \* the argument ctx is nil
    llmErrors,     \* llmErrors[k]: how the k-th GenerateContent call ends: "ok", "retryable", "fatal"
    llmResp,       \* the parts of the candidates of a successful response
    llmAttempt,    \* the loop variable attempt
    llmpc,         \* "idle", "loop", "returned"
    llmCalls,      \* GenerateContent calls made
    llmSleeps,     \* seconds spent in time.Sleep
    llmTrace,      \* what happened, in order: "call", "sleep"
    llmResult      \* the string returned

llmVars == <<modelNil, ctxNil, llmErrors, llmResp, llmAttempt, llmpc, llmCalls, llmSleeps,
             llmTrace, llmResult>>

\* AsyncParallelBatchFlow.runAsyncInternal: its goroutine, the tasks it
\* spawns and their WaitGroup.
VARIABLES
    gpc,           \* the goroutine: "idle", "loop" (spawning, then wg.Wait()), "done"
    gSlice,        \* prepSlice
    gi,            \* index of the range loop (1-based)
    gwg,           \* the WaitGroup counter
    gTask,         \* gTask[i]: task i is "new", "running" (waiting on orchResChan), "done"
    gSignals,      \* gSignals[i]: wg.Done() calls of task i
    gPosts,        \* PostAsync calls
    gChan,         \* the returned channel result (capacity 1)
    gClosed,       \* result is closed
    gShared,       \* the store runAsyncInternal was called with
    gRun,          \* gRun[i]: the index in runs of the run task i started, 0 before that
    gPostStore     \* the store PostAsync was called with

parFlowVars == <<gpc, gSlice, gi, gwg, gTask, gSignals, gPosts, gChan, gClosed, gShared, gRun,
                 gPostStore>>

vars == <<flowVars, retryVars, batchVars, parVars, asyncVars, batchFlowVars, researchVars,
          runVars, llmVars, parFlowVars>>

\* ------------------------------------------------------- lifecycle methods
\* BaseNode.Prep, BaseNode.Exec and BaseNode.Post return nil and touch nothing.
BasePrep == Nil
BaseExec == Nil
BasePost == Nil

\* The action returned by the Post in n's own method set.
OwnPost(n) == IF kind[n] = "Custom" THEN CustomPostAction ELSE BasePost

\* The implementation in n's own method set: the user type's for a Custom
\* node, BaseNode's otherwise.
OwnImpl(n) == IF kind[n] = "Custom" THEN "Custom" ELSE "BaseNode"

Call(n, phase, impl) == <<n, phase, impl>>

\* BaseNode.runInternal on receiver n: b.Prep, b.execInternal -> b.Exec and
\* b.Post are all BaseNode's methods, whatever type embeds the receiver.
BaseRunInternalCalls(n) ==
    << Call(n, "Prep", "BaseNode"), Call(n, "Exec", "BaseNode"), Call(n, "Post", "BaseNode") >>

BaseRunInternalResult == BasePost

\* fmt.Sprintf("%v", v) for an action value: a nil interface prints as "<nil>".
SprintfNilAsEmpty(v) == IF v = Nil THEN "" ELSE v
Sprintf(v) == IF v = Nil THEN "<nil>" ELSE v

\* --------------------------------------------------------------- the router
\* The key an action string is filed under (Next and GetNextNode both do this).
NormalizeNothing(action) == action
NormalizeAction(action) == IF action = "" THEN "default" ELSE action

\* BaseNode.Next: the successor map of src after src.Next(dst, action).
NextMapKeepsFirst(succ, dst, action) ==
    IF succ[NormalizeAction(action)] # NoNode
    THEN succ
    ELSE [succ EXCEPT ![NormalizeAction(action)] = dst]
NextMap(succ, dst, action) ==
    [succ EXCEPT ![NormalizeAction(action)] = dst]

\* Flow.GetNextNode (the variant of the test's transitionTestFlow falls back
\* to the "default" entry; Flow's own does not).
GetNextNodeDefaultFallback(n, action) ==
    LET a == IF action = "" THEN "default" ELSE action
    IN  IF successors[n][a] # NoNode THEN successors[n][a] ELSE successors[n]["default"]
\* A lookup that hands back the current node when the action has no entry.
GetNextNodeRepeats(n, action) ==
    LET a == IF action = "" THEN "default" ELSE action
    IN  IF successors[n][a] # NoNode THEN successors[n][a] ELSE n
GetNextNode(n, action) ==
    successors[n][NormalizeAction(action)]

\* The type assertion x.(*BaseNode) of orchestrate.
IsBaseNodePtr(n) == n # NoNode /\ kind[n] = "BaseNode"

\* ------------------------------------------------------------------- Init
NoSuccessors == [a \in ActionArgs |-> NoNode]

FlowInit ==
    /\ kind \in [Nodes -> Kinds]
    /\ successors = [n \in Nodes |-> NoSuccessors]
    /\ wires = << >>
    /\ params = [n \in Nodes |-> "empty"]
    /\ startNode \in {"A", NoNode}
    /\ fpc = "build"
    /\ entry = "none"
    /\ curr = NoNode
    /\ lastAction = Nil
    /\ steps = 0
    /\ calls = << >>
    /\ flowResult = Nil

\* ------------------------------------------------------------------ wiring
\* src.Next(dst, action)
Next_(src, dst, action) ==
    /\ fpc = "build"
    /\ Len(wires) < MaxWires
    /\ successors' = [successors EXCEPT ![src] = NextMap(successors[src], dst, action)]
    /\ wires' = Append(wires, <<src, dst, action>>)
    /\ UNCHANGED <<kind, params, startNode, fpc, entry, curr, lastAction, steps,
                   calls, flowResult>>
    /\ UNCHANGED <<retryVars, batchVars, parVars, asyncVars, batchFlowVars, researchVars, runVars, llmVars, parFlowVars>>

\* ------------------------------------------------------------- orchestrate
\* The body of orchestrate up to the loop: nil start node and the failed type
\* assertion return nil; params == nil copies the flow's params.
EnterOrchestrate(how, before) ==
    /\ entry' = how
    /\ IF startNode = NoNode \/ ~IsBaseNodePtr(startNode)
       THEN /\ fpc' = "done"
            /\ curr' = NoNode
            /\ IF how = "runInternal"
               THEN /\ calls' = before \o << Call(FlowId, "Post", "Flow") >>
                    /\ flowResult' = Nil
               ELSE /\ calls' = before
                    /\ flowResult' = Nil
       ELSE /\ fpc' = "running"
            /\ curr' = startNode
            /\ calls' = before
            /\ flowResult' = Nil
    /\ UNCHANGED <<kind, successors, wires, params, startNode, lastAction, steps>>
    /\ UNCHANGED <<retryVars, batchVars, parVars, asyncVars, batchFlowVars, researchVars, runVars, llmVars, parFlowVars>>

\* f.orchestrate(shared, nil) called directly.
Orchestrate ==
    /\ fpc = "build"
    /\ EnterOrchestrate("orchestrate", calls)

\* Flow.runInternal: f.Prep is BaseNode.Prep, f.Post is Flow.Post (execRes).
FlowRunInternal ==
    /\ fpc = "build"
    /\ EnterOrchestrate("runInternal", calls \o << Call(FlowId, "Prep", "BaseNode") >>)

\* A loop that advances by moving the flow's start node.
OrchestrateStepMovesStart ==
    /\ fpc = "running"
    /\ steps < MaxSteps
    /\ LET act == BaseRunInternalResult
           nxt == GetNextNode(curr, Sprintf(act))
           ends == nxt = NoNode \/ ~IsBaseNodePtr(nxt)
           ran == calls \o BaseRunInternalCalls(curr)
       IN /\ params' = [params EXCEPT ![curr] = "flow"]
          /\ lastAction' = act
          /\ steps' = steps + 1
          /\ IF ends
             THEN /\ fpc' = "done"
                  /\ curr' = curr
                  /\ startNode' = startNode
                  /\ flowResult' = act
                  /\ calls' = IF entry = "runInternal"
                              THEN ran \o << Call(FlowId, "Post", "Flow") >>
                              ELSE ran
             ELSE /\ fpc' = "running"
                  /\ curr' = nxt
                  /\ startNode' = nxt
                  /\ flowResult' = flowResult
                  /\ calls' = ran
    /\ UNCHANGED <<kind, successors, wires, entry>>
    /\ UNCHANGED <<retryVars, batchVars, parVars, asyncVars, batchFlowVars, researchVars, runVars, llmVars, parFlowVars>>

\* One iteration of orchestrate's loop, and the return when it ends.
OrchestrateStep ==
    /\ fpc = "running"
    /\ steps < MaxSteps
    /\ LET act == BaseRunInternalResult
           nxt == GetNextNode(curr, Sprintf(act))
           ends == nxt = NoNode \/ ~IsBaseNodePtr(nxt)
           ran == calls \o BaseRunInternalCalls(curr)
       IN /\ params' = [params EXCEPT ![curr] = "flow"]
          /\ lastAction' = act
          /\ steps' = steps + 1
          /\ IF ends
             THEN /\ fpc' = "done"
                  /\ curr' = curr
                  /\ flowResult' = act
                  /\ calls' = IF entry = "runInternal"
                              THEN ran \o << Call(FlowId, "Post", "Flow") >>
                              ELSE ran
             ELSE /\ fpc' = "running"
                  /\ curr' = nxt
                  /\ flowResult' = flowResult
                  /\ calls' = ran
    /\ UNCHANGED <<kind, successors, wires, startNode, entry>>
    /\ UNCHANGED <<retryVars, batchVars, parVars, asyncVars, batchFlowVars, researchVars, runVars, llmVars, parFlowVars>>

\* Flow.Run: Flow declares no Run, so this is BaseNode.Run on the flow's
\* embedded BaseNode, and its b.runInternal is BaseNode.runInternal.
FlowRun ==
    /\ fpc = "build"
    /\ entry' = "Run"
    /\ fpc' = "done"
    /\ calls' = calls \o BaseRunInternalCalls(FlowId)
    /\ flowResult' = BaseRunInternalResult
    /\ UNCHANGED <<kind, successors, wires, params, startNode, curr, lastAction, steps>>
    /\ UNCHANGED <<retryVars, batchVars, parVars, asyncVars, batchFlowVars, researchVars, runVars, llmVars, parFlowVars>>

FlowNext ==
    \/ \E src \in Nodes, dst \in Nodes, action \in ActionArgs : Next_(src, dst, action)
    \/ Orchestrate
    \/ FlowRunInternal
    \/ OrchestrateStep
    \/ FlowRun


\* ========================================================= retry executors
NoErr == "noerr"        \* a nil error
FaultErr == "fault"     \* the error a recovered panic is converted to
Pending == "pending"    \* no value returned yet
PrepValues == {Nil, "1", "2"}

\* The node's dynamic type declares its own Exec / ExecAsync (retryTestNode,
\* asyncErrorTestNode, DecideAction): x*10, panicking as ownFaults says.
Times10(p) == CASE p = "1" -> "10" [] p = "2" -> "20" [] p = "3" -> "30" [] OTHER -> "invalid"
OwnExecValue(p) == Times10(p)

\* n.Exec(prepRes) inside (*Node).execInternal and a.ExecAsync(prepRes) inside
\* (*AsyncNode).execAsyncInternal: the receiver's static type is *Node
\* (*AsyncNode), so Go calls BaseNode.Exec (AsyncNode.ExecAsync), whatever the
\* dynamic type of the value the method was promoted to.
ResolveExec(k) == "Base"

\* What one invocation of an implementation does at its attempt-th call.
ExecOutcome(impl, attempt, p) ==
    IF impl = "Base"
    THEN [panic |-> FALSE, val |-> BaseExec]
    ELSE [panic |-> ownFaults[attempt], val |-> OwnExecValue(p)]

\* The ExecAsync a user type declares (asyncBatchTestNode): x*2.
Times2(p) == CASE p = "1" -> "2" [] p = "2" -> "4" [] p = "3" -> "6" [] OTHER -> "invalid"
OwnExecAsyncValue(p) == Times2(p)

\* AsyncNode.ExecAsync returns nil.
BaseExecAsync == Nil

ExecAsyncOutcome(impl, attempt, p) ==
    IF impl = "Base"
    THEN [panic |-> FALSE, val |-> BaseExecAsync]
    ELSE [panic |-> ownFaults[attempt], val |-> OwnExecAsyncValue(p)]

\* Node.ExecFallback / AsyncNode.ExecFallbackAsync: return err.
ExecFallback(p, err) == err

\* `if err == nil { return result }`
ReturnsResultInverted(err) == err # NoErr
ReturnsResult(err) == err = NoErr

\* `if n.curRetry == n.maxRetries-1`
IsLastAttempt(i) == i = maxRetries - 1

FaultPatterns == [1..MaxRetry -> BOOLEAN]

RetryInit ==
    /\ rKind \in {"Plain", "Custom"}
    /\ maxRetries \in (-1)..MaxRetry
    /\ wait \in {0, 1}
    /\ ownFaults \in FaultPatterns
    /\ curRetry = 0
    /\ rpc = "idle"
    /\ rMode = "sync"
    /\ rCaller = "direct"
    /\ prepRes = Nil
    /\ execLog = << >>
    /\ fbLog = << >>
    /\ sleeps = 0
    /\ rResult = Pending
    /\ rChan = << >>
    /\ rClosed = FALSE
    /\ rCalls = 0
    /\ execTotal = 0

\* A call whose loop starts counting at 1.
BeginCallStartsAtOne(mode, caller, p) ==
    /\ rpc \in {"idle", "returned"}
    /\ rMode' = mode
    /\ rCaller' = caller
    /\ prepRes' = p
    /\ curRetry' = 1
    /\ rpc' = "loop"
    /\ execLog' = << >>
    /\ fbLog' = << >>
    /\ sleeps' = 0
    /\ rResult' = Pending
    /\ rChan' = << >>
    /\ rClosed' = FALSE
    /\ rCalls' = rCalls + 1
    /\ UNCHANGED <<rKind, maxRetries, wait, ownFaults, execTotal>>

\* The state a call of either executor starts from.
BeginCall(mode, caller, p) ==
    /\ rpc \in {"idle", "returned"}
    /\ rMode' = mode
    /\ rCaller' = caller
    /\ prepRes' = p
    /\ curRetry' = 0
    /\ rpc' = "loop"
    /\ execLog' = << >>
    /\ fbLog' = << >>
    /\ sleeps' = 0
    /\ rResult' = Pending
    /\ rChan' = << >>
    /\ rClosed' = FALSE
    /\ rCalls' = rCalls + 1
    /\ UNCHANGED <<rKind, maxRetries, wait, ownFaults, execTotal>>

\* n.execInternal(prepRes): `for n.curRetry = 0; ...`
ExecInternalCall(p) ==
    /\ rCalls < MaxCalls
    /\ BeginCall("sync", "direct", p)
    /\ UNCHANGED <<flowVars, batchVars, parVars, asyncVars, batchFlowVars, researchVars, runVars, llmVars, parFlowVars>>

\* One iteration of Node.execInternal's loop.  The recover is deferred to the
\* exit of execInternal, not of the iteration: a panic of Exec unwinds
\* execInternal, the deferred closure stops it, and execInternal returns the
\* zero value of its unnamed result.  When Exec returns, err is still the nil
\* it was declared with.
RetryAttempt ==
    /\ rpc = "loop" /\ rMode = "sync"
    /\ curRetry < maxRetries
    /\ LET impl == ResolveExec(rKind)
           out == ExecOutcome(impl, curRetry + 1, prepRes)
           err == NoErr
       IN /\ execLog' = Append(execLog, <<impl, curRetry, out.panic, out.val>>)
          /\ execTotal' = execTotal + 1
          /\ IF out.panic
             THEN /\ rpc' = "returned"
                  /\ rResult' = Nil
                  /\ UNCHANGED <<curRetry, fbLog, sleeps>>
             ELSE IF ReturnsResult(err)
             THEN /\ rpc' = "returned"
                  /\ rResult' = out.val
                  /\ UNCHANGED <<curRetry, fbLog, sleeps>>
             ELSE IF IsLastAttempt(curRetry)
             THEN /\ rpc' = "returned"
                  /\ fbLog' = Append(fbLog, err)
                  /\ rResult' = ExecFallback(prepRes, err)
                  /\ UNCHANGED <<curRetry, sleeps>>
             ELSE /\ rpc' = "loop"
                  /\ sleeps' = sleeps + (IF wait > 0 THEN 1 ELSE 0)
                  /\ curRetry' = curRetry + 1
                  /\ UNCHANGED <<fbLog, rResult>>
    /\ UNCHANGED <<rKind, maxRetries, wait, ownFaults, rMode, rCaller, prepRes, rChan,
                   rClosed, rCalls>>
    /\ UNCHANGED <<flowVars, batchVars, parVars, asyncVars, batchFlowVars, researchVars, runVars, llmVars, parFlowVars>>

\* A loop exit that hands an exhausted budget to the fallback, as the last
\* iteration does.
RetryLoopExitCallsFallback ==
    /\ rpc = "loop" /\ rMode = "sync"
    /\ ~(curRetry < maxRetries)
    /\ rpc' = "returned"
    /\ fbLog' = Append(fbLog, NoErr)
    /\ rResult' = ExecFallback(prepRes, NoErr)
    /\ UNCHANGED <<rKind, maxRetries, wait, ownFaults, curRetry, rMode, rCaller, prepRes,
                   execLog, sleeps, rChan, rClosed, rCalls, execTotal>>
    /\ UNCHANGED <<flowVars, batchVars, parVars, asyncVars, batchFlowVars, researchVars, runVars, llmVars, parFlowVars>>

\* The loop condition fails: `return nil`.
RetryLoopExit ==
    /\ rpc = "loop" /\ rMode = "sync"
    /\ ~(curRetry < maxRetries)
    /\ rpc' = "returned"
    /\ rResult' = Nil
    /\ UNCHANGED <<rKind, maxRetries, wait, ownFaults, curRetry, rMode, rCaller, prepRes,
                   execLog, fbLog, sleeps, rChan, rClosed, rCalls, execTotal>>
    /\ UNCHANGED <<flowVars, batchVars, parVars, asyncVars, batchFlowVars, researchVars, runVars, llmVars, parFlowVars>>

\* a.execAsyncInternal(prepRes): the channel is returned, the goroutine starts.
ExecAsyncInternalCall(p) ==
    /\ rCalls < MaxCalls
    /\ BeginCall("async", "direct", p)
    /\ UNCHANGED <<flowVars, batchVars, parVars, asyncVars, batchFlowVars, researchVars, runVars, llmVars, parFlowVars>>

\* One iteration of the loop of execAsyncInternal's goroutine, at local i with
\* argument p.  Here the recover is deferred inside a function literal of the
\* iteration, so err is set when ExecAsync panics.  The iteration delivers
\* the result, delivers the fallback's, or goes on to the next attempt.
AsyncIteration(i, p) ==
    LET impl == ResolveExec(rKind)
        out == ExecAsyncOutcome(impl, i + 1, p)
        err == IF out.panic THEN FaultErr ELSE NoErr
    IN  [entry |-> <<impl, i, out.panic, out.val>>,
         err |-> err,
         does |-> IF ReturnsResult(err) THEN "deliver"
                  ELSE IF IsLastAttempt(i) THEN "fallback"
                  ELSE "retry",
         val |-> IF ReturnsResult(err) THEN out.val ELSE ExecFallback(p, err)]

\* Every return of the goroutine runs the deferred close(result).
AsyncRetryAttempt ==
    /\ rpc = "loop" /\ rMode = "async"
    /\ curRetry < maxRetries
    /\ LET it == AsyncIteration(curRetry, prepRes)
       IN /\ execLog' = Append(execLog, it.entry)
          /\ execTotal' = execTotal + 1
          /\ IF it.does = "retry"
             THEN /\ rpc' = "loop"
                  /\ sleeps' = sleeps + (IF wait > 0 THEN 1 ELSE 0)
                  /\ curRetry' = curRetry + 1
                  /\ UNCHANGED <<fbLog, rChan, rClosed>>
             ELSE /\ fbLog' = IF it.does = "fallback" THEN Append(fbLog, it.err) ELSE fbLog
                  /\ rChan' = Append(rChan, it.val)
                  /\ rClosed' = TRUE
                  /\ rpc' = "returned"
                  /\ UNCHANGED <<curRetry, sleeps>>
    /\ UNCHANGED <<rKind, maxRetries, wait, ownFaults, rMode, rCaller, prepRes, rResult,
                   rCalls>>
    /\ UNCHANGED <<flowVars, batchVars, parVars, asyncVars, batchFlowVars, researchVars, runVars, llmVars, parFlowVars>>

\* The goroutine's loop condition fails: it returns, closing the channel empty.
AsyncRetryLoopExit ==
    /\ rpc = "loop" /\ rMode = "async"
    /\ ~(curRetry < maxRetries)
    /\ rpc' = "returned"
    /\ rClosed' = TRUE
    /\ UNCHANGED <<rKind, maxRetries, wait, ownFaults, curRetry, rMode, rCaller, prepRes,
                   execLog, fbLog, sleeps, rResult, rChan, rCalls, execTotal>>
    /\ UNCHANGED <<flowVars, batchVars, parVars, asyncVars, batchFlowVars, researchVars, runVars, llmVars, parFlowVars>>

RetryNext ==
    \/ \E p \in PrepValues : ExecInternalCall(p)
    \/ RetryAttempt
    \/ RetryLoopExit
    \/ \E p \in PrepValues : ExecAsyncInternalCall(p)
    \/ AsyncRetryAttempt
    \/ AsyncRetryLoopExit

\* ======================================================== batch executor
Items == {"1", "2", "3"}
ItemLists == UNION {[1..n -> Items] : n \in 0..MaxLen}

\* The values execInternal can be handed as items: nil, a value that is not a
\* []interface{}, or a list.
BatchInputs ==
    {[tag |-> "nil", list |-> << >>], [tag |-> "other", list |-> << >>]}
        \cup {[tag |-> "list", list |-> l] : l \in ItemLists}

BatchIdle ==
    /\ bItems = [tag |-> "nil", list |-> << >>]
    /\ bIdx = 0
    /\ bResults = << >>
    /\ bpc = "idle"
    /\ bChan = << >>
    /\ bClosed = FALSE
    /\ bTrace = << >>

BatchInit ==
    /\ rKind \in {"Plain", "Custom"}
    /\ maxRetries \in 0..MaxRetry
    /\ wait = 0
    /\ ownFaults \in FaultPatterns
    /\ curRetry = 0
    /\ rpc = "idle"
    /\ rMode = "sync"
    /\ rCaller = "batch"
    /\ prepRes = Nil
    /\ execLog = << >>
    /\ fbLog = << >>
    /\ sleeps = 0
    /\ rResult = Pending
    /\ rChan = << >>
    /\ rClosed = FALSE
    /\ rCalls = 0
    /\ execTotal = 0
    /\ BatchIdle

\* b.execInternal(items) up to the range loop.
BatchExecInternal(items) ==
    /\ bpc = "idle"
    /\ bItems' = items
    /\ IF items.tag # "list"
       THEN /\ bResults' = << >>
            /\ bIdx' = 0
            /\ bpc' = "returned"
       ELSE /\ bResults' = [i \in 1..Len(items.list) |-> Nil]
            /\ bIdx' = 1
            /\ bpc' = IF Len(items.list) = 0 THEN "returned" ELSE "loop"
    /\ UNCHANGED <<bChan, bClosed, bTrace>>
    /\ UNCHANGED <<flowVars, retryVars, parVars, asyncVars, batchFlowVars, researchVars, runVars, llmVars, parFlowVars>>

\* `b.Node.execInternal(item)` is entered for the element at bIdx.
BatchElementCall ==
    /\ bpc = "loop"
    /\ BeginCall("sync", "batch", bItems.list[bIdx])
    /\ bpc' = "waiting"
    /\ UNCHANGED <<bItems, bIdx, bResults, bChan, bClosed, bTrace>>
    /\ UNCHANGED <<flowVars, parVars, asyncVars, batchFlowVars, researchVars, runVars, llmVars, parFlowVars>>

\* `results[i] = ...`, the next iteration, and `return results` after the last.
BatchElementStore ==
    /\ bpc = "waiting"
    /\ rpc = "returned"
    /\ bResults' = [bResults EXCEPT ![bIdx] = rResult]
    /\ IF bIdx = Len(bItems.list)
       THEN bpc' = "returned" /\ bIdx' = bIdx
       ELSE bpc' = "loop" /\ bIdx' = bIdx + 1
    /\ UNCHANGED <<bItems, bChan, bClosed, bTrace>>
    /\ UNCHANGED <<flowVars, retryVars, parVars, asyncVars, batchFlowVars, researchVars, runVars, llmVars, parFlowVars>>

BatchNext ==
    \/ \E items \in BatchInputs : BatchExecInternal(items)
    \/ BatchElementCall
    \/ RetryAttempt
    \/ RetryLoopExit
    \/ BatchElementStore

\* ---------------------------------------------------------- AsyncBatchNode
\* a.execAsyncInternal(items): the channel is returned and the goroutine runs
\* up to its range loop; nil and a value that is no list send an empty list.
AsyncBatchExecInternal(items) ==
    /\ bpc = "idle"
    /\ bItems' = items
    /\ bTrace' = << >>
    /\ IF items.tag # "list" \/ Len(items.list) = 0
       THEN /\ bResults' = << >>
            /\ bIdx' = 0
            /\ bChan' = << [tag |-> "list", list |-> << >>] >>
            /\ bClosed' = TRUE
            /\ bpc' = "returned"
       ELSE /\ bResults' = [i \in 1..Len(items.list) |-> Nil]
            /\ bIdx' = 1
            /\ bChan' = << >>
            /\ bClosed' = FALSE
            /\ bpc' = "loop"
    /\ UNCHANGED <<flowVars, retryVars, parVars, asyncVars, batchFlowVars, researchVars, runVars, llmVars, parFlowVars>>

\* `resChan := a.AsyncNode.execAsyncInternal(item)` for the element at bIdx.
AsyncBatchElementCall ==
    /\ bpc = "loop"
    /\ BeginCall("async", "batch", bItems.list[bIdx])
    /\ bpc' = "waiting"
    /\ bTrace' = Append(bTrace, <<"start", bIdx>>)
    /\ UNCHANGED <<bItems, bIdx, bResults, bChan, bClosed>>
    /\ UNCHANGED <<flowVars, parVars, asyncVars, batchFlowVars, researchVars, runVars, llmVars, parFlowVars>>

\* `results[i] = <-resChan` (the zero value when resChan was closed empty),
\* the next iteration, and after the last `result <- results` and the
\* deferred close(result).
AsyncBatchElementStore ==
    /\ bpc = "waiting"
    /\ rpc = "returned"
    /\ bResults' = [bResults EXCEPT ![bIdx] = IF rChan # << >> THEN rChan[1] ELSE Nil]
    /\ bTrace' = Append(bTrace, <<"recv", bIdx>>)
    /\ IF bIdx = Len(bItems.list)
       THEN /\ bChan' = << [tag |-> "list", list |-> bResults'] >>
            /\ bClosed' = TRUE
            /\ bpc' = "returned"
            /\ bIdx' = bIdx
       ELSE /\ bpc' = "loop"
            /\ bIdx' = bIdx + 1
            /\ UNCHANGED <<bChan, bClosed>>
    /\ UNCHANGED bItems
    /\ UNCHANGED <<flowVars, retryVars, parVars, asyncVars, batchFlowVars, researchVars, runVars, llmVars, parFlowVars>>

AsyncBatchNext ==
    \/ \E items \in BatchInputs : AsyncBatchExecInternal(items)
    \/ AsyncBatchElementCall
    \/ AsyncRetryAttempt
    \/ AsyncRetryLoopExit
    \/ AsyncBatchElementStore

\* ================================================ parallel batch executor
ParLists == UNION {[1..n -> Items] : n \in 0..MaxPar}

ParInputs ==
    {[tag |-> "nil", list |-> << >>], [tag |-> "other", list |-> << >>]}
        \cup {[tag |-> "list", list |-> l] : l \in ParLists}

NothingReceived == [tag |-> "none", list |-> << >>]

ParIdle ==
    /\ pItems = [tag |-> "nil", list |-> << >>]
    /\ lpc = "idle"
    /\ li = 0
    /\ tpc = << >>
    /\ tI = << >>
    /\ tChan = << >>
    /\ tClosed = << >>
    /\ tExecs = << >>
    /\ slotChans = << >>
    /\ wg = 0
    /\ cpc = "none"
    /\ results = << >>
    /\ resultBuf = << >>
    /\ resultClosed = FALSE
    /\ received = NothingReceived

ParInit ==
    /\ rKind \in {"Plain", "Custom"}
    /\ maxRetries \in 0..2
    /\ wait = 0
    /\ ownFaults \in {[k \in 1..MaxRetry |-> FALSE], [k \in 1..MaxRetry |-> TRUE]}
    /\ curRetry = 0
    /\ rpc = "idle"
    /\ rMode = "async"
    /\ rCaller = "task"
    /\ prepRes = Nil
    /\ execLog = << >>
    /\ fbLog = << >>
    /\ sleeps = 0
    /\ rResult = Pending
    /\ rChan = << >>
    /\ rClosed = FALSE
    /\ rCalls = 0
    /\ execTotal = 0
    /\ ParIdle

\* The process is alive: no goroutine has panicked.
Alive == cpc # "panicked"

\* a.execAsyncInternal(items): result is made, the launcher starts, result is returned.
ParExecAsyncInternal(items) ==
    /\ lpc = "idle"
    /\ pItems' = items
    /\ lpc' = "check"
    /\ UNCHANGED <<li, tpc, tI, tChan, tClosed, tExecs, slotChans, wg, cpc, results, resultBuf,
                   resultClosed, received>>
    /\ UNCHANGED <<flowVars, retryVars, batchVars, asyncVars, batchFlowVars, researchVars, runVars, llmVars, parFlowVars>>

\* The launcher up to the range loop: nil and non-list items send an empty
\* list and return (closing result); otherwise results and resultChans are made.
LauncherCheck ==
    /\ Alive /\ lpc = "check"
    /\ IF pItems.tag # "list"
       THEN /\ resultBuf' = << << >> >>
            /\ resultClosed' = TRUE
            /\ lpc' = "done"
            /\ UNCHANGED <<li, tpc, tI, tChan, tClosed, tExecs, slotChans, results>>
       ELSE LET k == Len(pItems.list)
            IN /\ results' = [i \in 1..k |-> Nil]
               /\ slotChans' = [i \in 1..k |-> << >>]
               /\ tpc' = [i \in 1..k |-> "unborn"]
               /\ tI' = [i \in 1..k |-> 0]
               /\ tChan' = [i \in 1..k |-> << >>]
               /\ tClosed' = [i \in 1..k |-> FALSE]
               /\ tExecs' = [i \in 1..k |-> << >>]
               /\ li' = 1
               /\ lpc' = IF k = 0 THEN "collector" ELSE "spawn"
               /\ UNCHANGED <<resultBuf, resultClosed>>
    /\ UNCHANGED <<pItems, wg, cpc, received>>
    /\ UNCHANGED <<flowVars, retryVars, batchVars, asyncVars, batchFlowVars, researchVars, runVars, llmVars, parFlowVars>>

\* One iteration of the range loop: wg.Add(1), make resultChans[i], go task.
LauncherSpawn ==
    /\ Alive /\ lpc = "spawn"
    /\ wg' = wg + 1
    /\ tpc' = [tpc EXCEPT ![li] = "new"]
    /\ li' = li + 1
    /\ lpc' = IF li = Len(pItems.list) THEN "collector" ELSE "spawn"
    /\ UNCHANGED <<pItems, tI, tChan, tClosed, tExecs, slotChans, cpc, results, resultBuf,
                   resultClosed, received>>
    /\ UNCHANGED <<flowVars, retryVars, batchVars, asyncVars, batchFlowVars, researchVars, runVars, llmVars, parFlowVars>>

\* `go func() { wg.Wait(); ... }()`
LauncherSpawnCollector ==
    /\ Alive /\ lpc = "collector"
    /\ cpc' = "waiting"
    /\ lpc' = "closing"
    /\ UNCHANGED <<pItems, li, tpc, tI, tChan, tClosed, tExecs, slotChans, wg, results,
                   resultBuf, resultClosed, received>>
    /\ UNCHANGED <<flowVars, retryVars, batchVars, asyncVars, batchFlowVars, researchVars, runVars, llmVars, parFlowVars>>

\* The launcher's function literal ends: the deferred close(result) runs.
LauncherReturn ==
    /\ Alive /\ lpc = "closing"
    /\ resultClosed' = TRUE
    /\ lpc' = "done"
    /\ UNCHANGED <<pItems, li, tpc, tI, tChan, tClosed, tExecs, slotChans, wg, cpc, results,
                   resultBuf, received>>
    /\ UNCHANGED <<flowVars, retryVars, batchVars, asyncVars, batchFlowVars, researchVars, runVars, llmVars, parFlowVars>>

\* Task i: `resChan := a.AsyncNode.execAsyncInternal(itm)`.
TaskCallInner(i) ==
    /\ Alive /\ tpc[i] = "new"
    /\ tpc' = [tpc EXCEPT ![i] = "inner"]
    /\ UNCHANGED <<pItems, lpc, li, tI, tChan, tClosed, tExecs, slotChans, wg, cpc, results,
                   resultBuf, resultClosed, received>>
    /\ UNCHANGED <<flowVars, retryVars, batchVars, asyncVars, batchFlowVars, researchVars, runVars, llmVars, parFlowVars>>

\* The retry goroutine of task i: one iteration of its loop.
TaskInnerAttempt(i) ==
    /\ Alive /\ tpc[i] = "inner" /\ ~tClosed[i]
    /\ tI[i] < maxRetries
    /\ LET it == AsyncIteration(tI[i], pItems.list[i])
       IN /\ tExecs' = [tExecs EXCEPT ![i] = Append(@, <<it.entry[1], it.entry[3]>>)]
          /\ IF it.does = "retry"
             THEN /\ tI' = [tI EXCEPT ![i] = @ + 1]
                  /\ UNCHANGED <<tChan, tClosed>>
             ELSE /\ tChan' = [tChan EXCEPT ![i] = << it.val >>]
                  /\ tClosed' = [tClosed EXCEPT ![i] = TRUE]
                  /\ UNCHANGED tI
    /\ UNCHANGED <<pItems, lpc, li, tpc, slotChans, wg, cpc, results, resultBuf, resultClosed,
                   received>>
    /\ UNCHANGED <<flowVars, retryVars, batchVars, asyncVars, batchFlowVars, researchVars, runVars, llmVars, parFlowVars>>

\* The retry goroutine of task i: the loop condition fails, resChan is closed empty.
TaskInnerLoopExit(i) ==
    /\ Alive /\ tpc[i] = "inner" /\ ~tClosed[i]
    /\ ~(tI[i] < maxRetries)
    /\ tClosed' = [tClosed EXCEPT ![i] = TRUE]
    /\ UNCHANGED <<pItems, lpc, li, tpc, tI, tChan, tExecs, slotChans, wg, cpc, results,
                   resultBuf, resultClosed, received>>
    /\ UNCHANGED <<flowVars, retryVars, batchVars, asyncVars, batchFlowVars, researchVars, runVars, llmVars, parFlowVars>>

\* Task i: `resultChans[idx] <- <-resChan` (the zero value when resChan is
\* closed and empty), then the deferred wg.Done().
TaskDeposit(i) ==
    /\ Alive /\ tpc[i] = "inner"
    /\ tChan[i] # << >> \/ tClosed[i]
    /\ slotChans' = [slotChans EXCEPT ![i] = << IF tChan[i] # << >> THEN tChan[i][1] ELSE Nil >>]
    /\ tChan' = [tChan EXCEPT ![i] = << >>]
    /\ wg' = wg - 1
    /\ tpc' = [tpc EXCEPT ![i] = "done"]
    /\ UNCHANGED <<pItems, lpc, li, tI, tClosed, tExecs, cpc, results, resultBuf, resultClosed,
                   received>>
    /\ UNCHANGED <<flowVars, retryVars, batchVars, asyncVars, batchFlowVars, researchVars, runVars, llmVars, parFlowVars>>

\* A collector that does not wait for the WaitGroup and takes the zero value
\* from a slot nothing was deposited in.
CollectorGatherNoBarrier ==
    /\ Alive /\ cpc = "waiting"
    /\ results' = [i \in 1..Len(slotChans) |->
                      IF slotChans[i] # << >> THEN slotChans[i][1] ELSE Nil]
    /\ slotChans' = [i \in 1..Len(slotChans) |-> << >>]
    /\ cpc' = "gathered"
    /\ UNCHANGED <<pItems, lpc, li, tpc, tI, tChan, tClosed, tExecs, wg, resultBuf,
                   resultClosed, received>>
    /\ UNCHANGED <<flowVars, retryVars, batchVars, asyncVars, batchFlowVars, researchVars, runVars, llmVars, parFlowVars>>

\* The collector: wg.Wait() returns, every resultChans[i] is received from and closed.
CollectorGather ==
    /\ Alive /\ cpc = "waiting"
    /\ wg = 0
    /\ results' = [i \in 1..Len(slotChans) |-> slotChans[i][1]]
    /\ slotChans' = [i \in 1..Len(slotChans) |-> << >>]
    /\ cpc' = "gathered"
    /\ UNCHANGED <<pItems, lpc, li, tpc, tI, tChan, tClosed, tExecs, wg, resultBuf,
                   resultClosed, received>>
    /\ UNCHANGED <<flowVars, retryVars, batchVars, asyncVars, batchFlowVars, researchVars, runVars, llmVars, parFlowVars>>

\* The collector: `result <- results`; a send on a closed channel panics.
CollectorPublish ==
    /\ Alive /\ cpc = "gathered"
    /\ IF resultClosed
       THEN /\ cpc' = "panicked"
            /\ UNCHANGED resultBuf
       ELSE /\ cpc' = "published"
            /\ resultBuf' = << results >>
    /\ UNCHANGED <<pItems, lpc, li, tpc, tI, tChan, tClosed, tExecs, slotChans, wg, results,
                   resultClosed, received>>
    /\ UNCHANGED <<flowVars, retryVars, batchVars, asyncVars, batchFlowVars, researchVars, runVars, llmVars, parFlowVars>>

\* The caller: `<-result` yields the buffered value, or nil once result is
\* closed and empty.
Receive ==
    /\ Alive /\ lpc # "idle"
    /\ received = NothingReceived
    /\ resultBuf # << >> \/ resultClosed
    /\ received' = IF resultBuf # << >>
                   THEN [tag |-> "list", list |-> resultBuf[1]]
                   ELSE [tag |-> "nil", list |-> << >>]
    /\ resultBuf' = << >>
    /\ UNCHANGED <<pItems, lpc, li, tpc, tI, tChan, tClosed, tExecs, slotChans, wg, cpc,
                   results, resultClosed>>
    /\ UNCHANGED <<flowVars, retryVars, batchVars, asyncVars, batchFlowVars, researchVars, runVars, llmVars, parFlowVars>>

ParNext ==
    \/ \E items \in ParInputs : ParExecAsyncInternal(items)
    \/ LauncherCheck
    \/ LauncherSpawn
    \/ LauncherSpawnCollector
    \/ LauncherReturn
    \/ \E i \in 1..Len(tpc) : TaskCallInner(i)
    \/ \E i \in 1..Len(tpc) : TaskInnerAttempt(i)
    \/ \E i \in 1..Len(tpc) : TaskInnerLoopExit(i)
    \/ \E i \in 1..Len(tpc) : TaskDeposit(i)
    \/ CollectorGather
    \/ CollectorPublish
    \/ Receive

\* ====================================================== AsyncNode.RunAsync
NodeId == "N"          \* the node RunAsync is called on

\* AsyncNode.PrepAsync and AsyncNode.PostAsync return nil.
BasePrepAsync == Nil
BasePostAsync == Nil

\* What the PrepAsync / PostAsync in the receiver's own method set return: a
\* user node type declares its own (a prep value, the action it is wired
\* under); AsyncFlow declares PostAsync, which passes execRes through.
OwnPrepAsync(recv) ==
    IF recv = NodeId /\ rKind = "Custom" THEN "1" ELSE BasePrepAsync
OwnPostAsync(recv, execRes) ==
    IF recv = FlowId THEN execRes
    ELSE IF rKind = "Custom" THEN CustomPostAction
    ELSE BasePostAsync

AsyncIdle ==
    /\ aRecv = NodeId
    /\ hpc = "none"
    /\ runAsyncChan = << >>
    /\ runAsyncClosed = FALSE
    /\ ipc = "none"
    /\ iPrep = Nil
    /\ internalChan = << >>
    /\ internalClosed = FALSE
    /\ opc = "none"
    /\ orchChan = << >>
    /\ orchClosed = FALSE
    /\ sent = << >>
    /\ postArgs = << >>
    /\ got = << >>

\* `len(b.successors) > 0` on the receiver of Run / RunAsync.  The successor
\* map of NodeId is not modelled, and the one of the AsyncNode an AsyncFlow
\* embeds is never written (the flow's Next is the one of its embedded Flow).
HasSuccessors(recv) ==
    /\ recv \in Nodes
    /\ \E a \in ActionArgs : successors[recv][a] # NoNode

\* The lines BaseNode.Run and AsyncNode.RunAsync log.
WontRunSuccessors == "Warning: Node won't run successors. Use Flow."
WontRunSuccessorsAsync == "Warning: Node won't run successors. Use AsyncFlow."

\* x.RunAsync(shared): AsyncFlow declares no RunAsync, so on a flow this is
\* AsyncNode.RunAsync on the AsyncNode the flow embeds, NewAsyncNode(1, 0).
\* The channel is made, the goroutine is started, the channel is returned.
RunAsync(recv) ==
    /\ entry = "none" /\ hpc = "none" /\ ipc = "none" /\ rpc = "idle"
    /\ recv = FlowId => (maxRetries = 1 /\ wait = 0 /\ rKind = "Plain")
    /\ aRecv' = recv
    /\ entry' = "RunAsync"
    /\ hpc' = "started"
    /\ UNCHANGED <<kind, successors, wires, params, startNode, fpc, curr, lastAction, steps,
                   calls, flowResult>>
    /\ UNCHANGED <<runAsyncChan, runAsyncClosed, ipc, iPrep, internalChan, internalClosed,
                   opc, orchChan, orchClosed, sent, postArgs, got>>
    /\ UNCHANGED <<retryVars, batchVars, parVars, batchFlowVars, researchVars, runVars, llmVars, parFlowVars>>

\* RunAsync's goroutine: `res := a.runAsyncInternal(shared)`.  a is an
\* *AsyncNode, so this is AsyncNode.runAsyncInternal, for a flow as well.
RunAsyncBody ==
    /\ hpc = "started"
    /\ hpc' = "waiting"
    /\ ipc' = "started"
    /\ calls' = IF HasSuccessors(aRecv)
                THEN Append(calls, Call(aRecv, "log", WontRunSuccessorsAsync))
                ELSE calls
    /\ UNCHANGED <<kind, successors, wires, params, startNode, fpc, entry, curr, lastAction,
                   steps, flowResult>>
    /\ UNCHANGED <<aRecv, runAsyncChan, runAsyncClosed, iPrep, internalChan, internalClosed,
                   opc, orchChan, orchClosed, sent, postArgs, got>>
    /\ UNCHANGED <<retryVars, batchVars, parVars, batchFlowVars, researchVars, runVars, llmVars, parFlowVars>>

\* AsyncNode.runAsyncInternal's goroutine: a.PrepAsync is AsyncNode.PrepAsync,
\* then a.execAsyncInternal(prepRes) starts the retry goroutine.
RunAsyncInternalPrep ==
    /\ ipc = "started" /\ entry = "RunAsync"
    /\ iPrep' = BasePrepAsync
    /\ calls' = Append(calls, Call(aRecv, "PrepAsync", "AsyncNode"))
    /\ BeginCall("async", "run", BasePrepAsync)
    /\ ipc' = "waiting"
    /\ UNCHANGED <<kind, successors, wires, params, startNode, fpc, entry, curr, lastAction,
                   steps, flowResult>>
    /\ UNCHANGED <<aRecv, hpc, runAsyncChan, runAsyncClosed, internalChan, internalClosed,
                   opc, orchChan, orchClosed, sent, postArgs, got>>
    /\ UNCHANGED <<batchVars, parVars, batchFlowVars, researchVars, runVars, llmVars, parFlowVars>>

\* `execRes := <-execResChan` (the zero value when the channel was closed
\* empty), a.PostAsync is AsyncNode.PostAsync, `result <- postRes`, close.
RunAsyncInternalPost ==
    /\ ipc = "waiting" /\ entry = "RunAsync"
    /\ rChan # << >> \/ rClosed
    /\ LET execRes == IF rChan # << >> THEN rChan[1] ELSE Nil
       IN /\ postArgs' = Append(postArgs, <<aRecv, iPrep, execRes>>)
          /\ calls' = Append(calls, Call(aRecv, "PostAsync", "AsyncNode"))
          /\ internalChan' = << BasePostAsync >>
          /\ internalClosed' = TRUE
          /\ ipc' = "done"
    /\ UNCHANGED <<kind, successors, wires, params, startNode, fpc, entry, curr, lastAction,
                   steps, flowResult>>
    /\ UNCHANGED <<aRecv, hpc, runAsyncChan, runAsyncClosed, iPrep, opc, orchChan,
                   orchClosed, sent, got>>
    /\ UNCHANGED <<retryVars, batchVars, parVars, batchFlowVars, researchVars, runVars, llmVars, parFlowVars>>

\* RunAsync's goroutine: `result <- <-res`, then the deferred close(result).
RunAsyncDeliver ==
    /\ hpc = "waiting"
    /\ internalChan # << >> \/ internalClosed
    /\ LET v == IF internalChan # << >> THEN internalChan[1] ELSE Nil
       IN /\ runAsyncChan' = Append(runAsyncChan, v)
          /\ sent' = Append(sent, v)
    /\ internalChan' = << >>
    /\ runAsyncClosed' = TRUE
    /\ hpc' = "done"
    /\ UNCHANGED <<aRecv, ipc, iPrep, internalClosed, opc, orchChan, orchClosed, postArgs, got>>
    /\ UNCHANGED <<flowVars, retryVars, batchVars, parVars, batchFlowVars, researchVars, runVars, llmVars, parFlowVars>>

\* The caller receives from the channel RunAsync returned: the buffered value,
\* or the zero value once the channel is closed and empty.
AwaitRunAsync ==
    /\ entry = "RunAsync"
    /\ Len(got) < MaxCalls
    /\ runAsyncChan # << >> \/ runAsyncClosed
    /\ got' = Append(got, IF runAsyncChan # << >> THEN runAsyncChan[1] ELSE Nil)
    /\ runAsyncChan' = << >>
    /\ UNCHANGED <<aRecv, hpc, runAsyncClosed, ipc, iPrep, internalChan, internalClosed, opc,
                   orchChan, orchClosed, sent, postArgs>>
    /\ UNCHANGED <<flowVars, retryVars, batchVars, parVars, batchFlowVars, researchVars, runVars, llmVars, parFlowVars>>

AsyncNodeNext ==
    \/ \E recv \in {NodeId, FlowId} : RunAsync(recv)
    \/ RunAsyncBody
    \/ RunAsyncInternalPrep
    \/ AsyncRetryAttempt
    \/ AsyncRetryLoopExit
    \/ RunAsyncInternalPost
    \/ RunAsyncDeliver
    \/ AwaitRunAsync

\* ======================================= graphs of nodes of every kind
\* Every dynamic type a start node or a successor can have: besides Kinds, a
\* *Node with a retry policy, an *AsyncNode, and a *Flow (a nested flow).
AllKinds == Kinds \cup {"Node", "AsyncNode", "Flow"}

\* `interface{}(curr).(*AsyncNode)` in orchestrateAsync: curr is a *BaseNode
\* variable, so the interface value made from it has the dynamic type
\* *BaseNode, whatever struct embeds the BaseNode it points to.
DynamicTypeOfCurr(n) == "*BaseNode"
IsAsync(n) == DynamicTypeOfCurr(n) = "*AsyncNode"

\* What `<-asyncNode.runAsyncInternal(shared)` yields, and the calls it makes.
AsyncRunInternalResult == BasePostAsync
AsyncRunInternalCalls(n) ==
    << Call(n, "PrepAsync", "AsyncNode"), Call(n, "ExecAsync", "AsyncNode"),
       Call(n, "PostAsync", "AsyncNode") >>

GraphInit ==
    /\ kind \in [Nodes -> AllKinds]
    /\ successors = [n \in Nodes |-> NoSuccessors]
    /\ wires = << >>
    /\ params = [n \in Nodes |-> "empty"]
    /\ startNode \in {"A", NoNode}
    /\ fpc = "build"
    /\ entry = "none"
    /\ curr = NoNode
    /\ lastAction = Nil
    /\ steps = 0
    /\ calls = << >>
    /\ flowResult = Nil

\* The retry policy and the Exec of the nodes of kind "Node".
GraphRetryInit ==
    /\ rKind = "Custom"
    /\ maxRetries \in 1..MaxRetry
    /\ wait = 0
    /\ ownFaults = [k \in 1..MaxRetry |-> TRUE]
    /\ curRetry = 0
    /\ rpc = "idle"
    /\ rMode = "sync"
    /\ rCaller = "direct"
    /\ prepRes = Nil
    /\ execLog = << >>
    /\ fbLog = << >>
    /\ sleeps = 0
    /\ rResult = Pending
    /\ rChan = << >>
    /\ rClosed = FALSE
    /\ rCalls = 0
    /\ execTotal = 0

\* a.orchestrateAsync(shared, nil) called directly: the channel is returned.
OrchestrateAsync ==
    /\ fpc = "build" /\ entry = "none"
    /\ entry' = "orchestrateAsync"
    /\ fpc' = "async"
    /\ opc' = "started"
    /\ aRecv' = FlowId
    /\ UNCHANGED <<kind, successors, wires, params, startNode, curr, lastAction, steps,
                   calls, flowResult>>
    /\ UNCHANGED <<hpc, runAsyncChan, runAsyncClosed, ipc, iPrep, internalChan, internalClosed,
                   orchChan, orchClosed, sent, postArgs, got>>
    /\ UNCHANGED <<retryVars, batchVars, parVars, batchFlowVars, researchVars, runVars, llmVars, parFlowVars>>

\* a.runAsyncInternal(shared) on an AsyncFlow, called directly.
FlowRunAsyncInternal ==
    /\ fpc = "build" /\ entry = "none"
    /\ entry' = "runAsyncInternal"
    /\ fpc' = "async"
    /\ ipc' = "started"
    /\ aRecv' = FlowId
    /\ UNCHANGED <<kind, successors, wires, params, startNode, curr, lastAction, steps,
                   calls, flowResult>>
    /\ UNCHANGED <<hpc, runAsyncChan, runAsyncClosed, iPrep, internalChan, internalClosed,
                   opc, orchChan, orchClosed, sent, postArgs, got>>
    /\ UNCHANGED <<retryVars, batchVars, parVars, batchFlowVars, researchVars, runVars, llmVars, parFlowVars>>

\* AsyncFlow.runAsyncInternal's goroutine: a.PrepAsync is AsyncNode.PrepAsync,
\* then a.orchestrateAsync(shared, nil) starts the orchestrating goroutine.
FlowRunAsyncInternalPrep ==
    /\ ipc = "started" /\ entry = "runAsyncInternal"
    /\ iPrep' = BasePrepAsync
    /\ calls' = Append(calls, Call(FlowId, "PrepAsync", "AsyncNode"))
    /\ opc' = "started"
    /\ ipc' = "waiting"
    /\ UNCHANGED <<kind, successors, wires, params, startNode, fpc, entry, curr, lastAction,
                   steps, flowResult>>
    /\ UNCHANGED <<aRecv, hpc, runAsyncChan, runAsyncClosed, internalChan, internalClosed,
                   orchChan, orchClosed, sent, postArgs, got>>
    /\ UNCHANGED <<retryVars, batchVars, parVars, batchFlowVars, researchVars, runVars, llmVars, parFlowVars>>

\* orchestrateAsync's goroutine up to the loop: a nil start node and the failed
\* type assertion send nil and return (closing the channel).
OrchestrateAsyncEnter ==
    /\ opc = "started"
    /\ IF startNode = NoNode \/ ~IsBaseNodePtr(startNode)
       THEN /\ orchChan' = << Nil >>
            /\ orchClosed' = TRUE
            /\ sent' = IF entry = "orchestrateAsync" THEN Append(sent, Nil) ELSE sent
            /\ opc' = "done"
            /\ curr' = NoNode
       ELSE /\ opc' = "running"
            /\ curr' = startNode
            /\ UNCHANGED <<orchChan, orchClosed, sent>>
    /\ UNCHANGED <<kind, successors, wires, params, startNode, fpc, entry, lastAction, steps,
                   calls, flowResult>>
    /\ UNCHANGED <<aRecv, hpc, runAsyncChan, runAsyncClosed, ipc, iPrep, internalChan,
                   internalClosed, postArgs, got>>
    /\ UNCHANGED <<retryVars, batchVars, parVars, batchFlowVars, researchVars, runVars, llmVars, parFlowVars>>

\* One iteration of orchestrateAsync's loop, and `result <- lastAction` with
\* the deferred close when the loop ends.
OrchestrateAsyncStep ==
    /\ opc = "running"
    /\ steps < MaxSteps
    /\ LET act == IF IsAsync(curr) THEN AsyncRunInternalResult ELSE BaseRunInternalResult
           ran == calls \o (IF IsAsync(curr) THEN AsyncRunInternalCalls(curr)
                            ELSE BaseRunInternalCalls(curr))
           nxt == GetNextNode(curr, Sprintf(act))
           ends == nxt = NoNode \/ ~IsBaseNodePtr(nxt)
       IN /\ params' = [params EXCEPT ![curr] = "flow"]
          /\ lastAction' = act
          /\ steps' = steps + 1
          /\ calls' = ran
          /\ IF ends
             THEN /\ opc' = "done"
                  /\ curr' = curr
                  /\ orchChan' = << act >>
                  /\ orchClosed' = TRUE
                  /\ sent' = IF entry = "orchestrateAsync" THEN Append(sent, act) ELSE sent
             ELSE /\ opc' = "running"
                  /\ curr' = nxt
                  /\ UNCHANGED <<orchChan, orchClosed, sent>>
    /\ UNCHANGED <<kind, successors, wires, startNode, fpc, entry, flowResult>>
    /\ UNCHANGED <<aRecv, hpc, runAsyncChan, runAsyncClosed, ipc, iPrep, internalChan,
                   internalClosed, postArgs, got>>
    /\ UNCHANGED <<retryVars, batchVars, parVars, batchFlowVars, researchVars, runVars, llmVars, parFlowVars>>

\* AsyncFlow.runAsyncInternal's goroutine: `orchRes := <-orchResChan`,
\* a.PostAsync is AsyncFlow.PostAsync (execRes), `result <- ...`, close.
FlowRunAsyncInternalPost ==
    /\ ipc = "waiting" /\ entry = "runAsyncInternal"
    /\ orchChan # << >> \/ orchClosed
    /\ LET orchRes == IF orchChan # << >> THEN orchChan[1] ELSE Nil
       IN /\ postArgs' = Append(postArgs, <<FlowId, iPrep, orchRes>>)
          /\ calls' = Append(calls, Call(FlowId, "PostAsync", "AsyncFlow"))
          /\ internalChan' = << orchRes >>
          /\ sent' = Append(sent, orchRes)
    /\ orchChan' = << >>
    /\ internalClosed' = TRUE
    /\ ipc' = "done"
    /\ UNCHANGED <<kind, successors, wires, params, startNode, fpc, entry, curr, lastAction,
                   steps, flowResult>>
    /\ UNCHANGED <<aRecv, hpc, runAsyncChan, runAsyncClosed, iPrep, opc, orchClosed, got>>
    /\ UNCHANGED <<retryVars, batchVars, parVars, batchFlowVars, researchVars, runVars, llmVars, parFlowVars>>

\* The caller receives from the channel the called operation returned.
AwaitFlow ==
    /\ entry \in {"orchestrateAsync", "runAsyncInternal"}
    /\ got = << >>
    /\ IF entry = "orchestrateAsync"
       THEN /\ orchChan # << >> \/ orchClosed
            /\ got' = << IF orchChan # << >> THEN orchChan[1] ELSE Nil >>
            /\ orchChan' = << >>
            /\ UNCHANGED internalChan
       ELSE /\ internalChan # << >> \/ internalClosed
            /\ got' = << IF internalChan # << >> THEN internalChan[1] ELSE Nil >>
            /\ internalChan' = << >>
            /\ UNCHANGED orchChan
    /\ UNCHANGED <<aRecv, hpc, runAsyncChan, runAsyncClosed, ipc, iPrep, internalClosed, opc,
                   orchClosed, sent, postArgs>>
    /\ UNCHANGED <<flowVars, retryVars, batchVars, parVars, batchFlowVars, researchVars, runVars, llmVars, parFlowVars>>

GraphNext ==
    \/ \E action \in ActionArgs : Next_("A", "B", action)
    \/ Orchestrate
    \/ OrchestrateStep
    \/ OrchestrateAsync
    \/ FlowRunAsyncInternal
    \/ FlowRunAsyncInternalPrep
    \/ OrchestrateAsyncEnter
    \/ OrchestrateAsyncStep
    \/ FlowRunAsyncInternalPost
    \/ AwaitFlow

\* ============================================================ batch flows
ParamKeys == {"p", "q"}
Absent == "absent"     \* the key is not in the map
NoParams == [k \in ParamKeys |-> Absent]
FlowDefaults == [k \in ParamKeys |-> "flow"]

\* The elements a Prep can put in the list it returns: a map of overrides, or
\* a value that is no map[string]interface{}.
OverrideValues ==
    {[isMap |-> TRUE, map |-> [p |-> "over", q |-> Absent]],
     [isMap |-> TRUE, map |-> [p |-> Absent, q |-> "over"]],
     [isMap |-> FALSE, map |-> NoParams]}
OverrideLists == UNION {[1..n -> OverrideValues] : n \in 0..MaxOver}

\* A Prep result: nil, or a list.
NilResult == [tag |-> "nil", list |-> << >>]
ListResult(l) == [tag |-> "list", list |-> l]

\* b.Prep(shared) in BatchFlow.runInternal is BaseNode.Prep, and a.PrepAsync
\* in the async batch flows is AsyncNode.PrepAsync: both return nil, whatever
\* Prep the batch flow's dynamic type declares.
ResolvePrep(k) == "Base"
PrepResult(impl) == IF impl = "Base" THEN NilResult ELSE ListResult(ownOverrides)

\* `prepSlice, ok := prepRes.([]interface{})`, the empty list when !ok or nil.
AsSlice(res) == IF res.tag = "list" THEN res.list ELSE << >>

\* params: a copy of the flow's params overlaid by the override.
Merge(own, over) == [k \in ParamKeys |-> IF over[k] # Absent THEN over[k] ELSE own[k]]

\* The params of the runs the range loop makes over sl: one per element that
\* is a map, in order; the others are skipped.
RECURSIVE RunsOf(_)
RunsOf(sl) ==
    IF sl = << >> THEN << >>
    ELSE (IF Head(sl).isMap THEN << Merge(fParams, Head(sl).map) >> ELSE << >>)
             \o RunsOf(Tail(sl))

\* The lifecycle calls of one run of orchestrate / orchestrateAsync.
RECURSIVE LoopCalls(_, _)
LoopCalls(n, fuel) ==
    IF fuel = 0 THEN << >>
    ELSE LET nxt == GetNextNode(n, Sprintf(BaseRunInternalResult))
         IN  BaseRunInternalCalls(n) \o
                (IF nxt = NoNode \/ ~IsBaseNodePtr(nxt) THEN << >>
                 ELSE LoopCalls(nxt, fuel - 1))
OrchestrateCalls ==
    IF startNode = NoNode \/ ~IsBaseNodePtr(startNode) THEN << >>
    ELSE LoopCalls(startNode, MaxSteps)

RECURSIVE Repeat(_, _)
Repeat(seq, n) == IF n = 0 THEN << >> ELSE seq \o Repeat(seq, n - 1)

\* The orders in which the tasks of the parallel batch flow can start their runs.
Orders(n) == {f \in [1..n -> 1..n] : \A i, j \in 1..n : f[i] = f[j] => i = j}

BatchFlowIdle ==
    /\ fKind = "Plain"
    /\ ownOverrides = << >>
    /\ fParams = NoParams
    /\ runs = << >>

BatchFlowInit ==
    /\ fKind \in {"Plain", "Custom"}
    /\ ownOverrides \in OverrideLists
    /\ fKind = "Plain" => ownOverrides = << >>
    /\ fParams \in {NoParams, FlowDefaults}
    /\ runs = << >>

\* BatchFlow.runInternal: Prep, one orchestrate per override in order, then
\* b.Post, which is Flow.Post and returns its execRes, nil.
BatchFlowRunInternal ==
    /\ fpc = "build" /\ entry = "none"
    /\ LET prep == PrepResult(ResolvePrep(fKind))
           made == RunsOf(AsSlice(prep))
       IN /\ runs' = made
          /\ calls' = << Call(FlowId, "Prep", "BaseNode") >>
                         \o Repeat(OrchestrateCalls, Len(made))
                         \o << Call(FlowId, "Post", "Flow") >>
          /\ postArgs' = Append(postArgs, <<FlowId, prep, Nil>>)
          /\ flowResult' = Nil
    /\ entry' = "BatchFlow.runInternal"
    /\ fpc' = "done"
    /\ UNCHANGED <<kind, successors, wires, params, startNode, curr, lastAction, steps>>
    /\ UNCHANGED <<aRecv, hpc, runAsyncChan, runAsyncClosed, ipc, iPrep, internalChan,
                   internalClosed, opc, orchChan, orchClosed, sent, got>>
    /\ UNCHANGED <<fKind, ownOverrides, fParams>>
    /\ UNCHANGED <<retryVars, batchVars, parVars, researchVars, runVars, llmVars, parFlowVars>>

\* a.runAsyncInternal(shared) on an AsyncBatchFlow (sequential) or an
\* AsyncParallelBatchFlow (parallel): the channel is returned.
BatchFlowRunAsyncInternal(how) ==
    /\ fpc = "build" /\ entry = "none"
    /\ entry' = how
    /\ fpc' = "async"
    /\ ipc' = "started"
    /\ aRecv' = FlowId
    /\ UNCHANGED <<kind, successors, wires, params, startNode, curr, lastAction, steps,
                   calls, flowResult>>
    /\ UNCHANGED <<hpc, runAsyncChan, runAsyncClosed, iPrep, internalChan, internalClosed,
                   opc, orchChan, orchClosed, sent, postArgs, got>>
    /\ UNCHANGED <<retryVars, batchVars, parVars, batchFlowVars, researchVars, runVars, llmVars, parFlowVars>>

\* The goroutine of the batch flow: PrepAsync, the runs (each awaited before
\* the next for AsyncBatchFlow; one task per override, started in any order
\* and all waited for, for AsyncParallelBatchFlow), then a.PostAsync, which is
\* AsyncFlow.PostAsync and returns its execRes, nil; the send and the close.
BatchFlowAsyncBody ==
    /\ ipc = "started"
    /\ entry \in {"AsyncBatchFlow.runAsyncInternal", "AsyncParallelBatchFlow.runAsyncInternal"}
    /\ LET prep == PrepResult(ResolvePrep(fKind))
           made == RunsOf(AsSlice(prep))
       IN /\ IF entry = "AsyncBatchFlow.runAsyncInternal"
             THEN runs' = made
             ELSE \E o \in Orders(Len(made)) : runs' = [j \in 1..Len(made) |-> made[o[j]]]
          /\ calls' = << Call(FlowId, "PrepAsync", "AsyncNode") >>
                         \o Repeat(OrchestrateCalls, Len(made))
                         \o << Call(FlowId, "PostAsync", "AsyncFlow") >>
          /\ postArgs' = Append(postArgs, <<FlowId, prep, Nil>>)
    /\ internalChan' = << Nil >>
    /\ sent' = Append(sent, Nil)
    /\ internalClosed' = TRUE
    /\ ipc' = "done"
    /\ UNCHANGED <<kind, successors, wires, params, startNode, fpc, entry, curr, lastAction,
                   steps, flowResult>>
    /\ UNCHANGED <<aRecv, hpc, runAsyncChan, runAsyncClosed, iPrep, opc, orchChan, orchClosed,
                   got>>
    /\ UNCHANGED <<fKind, ownOverrides, fParams>>
    /\ UNCHANGED <<retryVars, batchVars, parVars, researchVars, runVars, llmVars, parFlowVars>>

\* The caller receives from the channel runAsyncInternal returned.
AwaitBatchFlow ==
    /\ entry \in {"AsyncBatchFlow.runAsyncInternal", "AsyncParallelBatchFlow.runAsyncInternal"}
    /\ got = << >>
    /\ internalChan # << >> \/ internalClosed
    /\ got' = << IF internalChan # << >> THEN internalChan[1] ELSE Nil >>
    /\ internalChan' = << >>
    /\ UNCHANGED <<aRecv, hpc, runAsyncChan, runAsyncClosed, ipc, iPrep, internalClosed, opc,
                   orchChan, orchClosed, sent, postArgs>>
    /\ UNCHANGED <<flowVars, retryVars, batchVars, parVars, batchFlowVars, researchVars, runVars, llmVars, parFlowVars>>

BatchFlowNext ==
    \/ \E action \in ActionArgs : Next_("A", "B", action)
    \/ BatchFlowRunInternal
    \/ \E how \in {"AsyncBatchFlow.runAsyncInternal", "AsyncParallelBatchFlow.runAsyncInternal"} :
          BatchFlowRunAsyncInternal(how)
    \/ BatchFlowAsyncBody
    \/ AwaitBatchFlow

\* ============================================ a node run stand-alone
\* A Run that goes on to the successor registered under the action returned.
RunFollowsSuccessors(n) ==
    /\ fpc = "build" /\ entry = "none"
    /\ entry' = "Node.Run"
    /\ aRecv' = n
    /\ fpc' = "done"
    /\ LET nxt == GetNextNode(n, Sprintf(BaseRunInternalResult))
       IN calls' = calls
                      \o (IF HasSuccessors(n) THEN << Call(n, "log", WontRunSuccessors) >>
                          ELSE << >>)
                      \o BaseRunInternalCalls(n)
                      \o (IF nxt # NoNode THEN BaseRunInternalCalls(nxt) ELSE << >>)
    /\ flowResult' = BaseRunInternalResult
    /\ UNCHANGED <<kind, successors, wires, params, startNode, curr, lastAction, steps>>
    /\ UNCHANGED <<hpc, runAsyncChan, runAsyncClosed, ipc, iPrep, internalChan, internalClosed,
                   opc, orchChan, orchClosed, sent, postArgs, got>>
    /\ UNCHANGED <<retryVars, batchVars, parVars, batchFlowVars, researchVars, runVars, llmVars, parFlowVars>>

\* n.Run(shared) on a node of the graph.  No node type declares Run, so for
\* every kind this is BaseNode.Run on the embedded BaseNode: the warning when
\* the node has successors, then BaseNode.runInternal.
Run(n) ==
    /\ fpc = "build" /\ entry = "none"
    /\ entry' = "Node.Run"
    /\ aRecv' = n
    /\ fpc' = "done"
    /\ calls' = calls
                  \o (IF HasSuccessors(n) THEN << Call(n, "log", WontRunSuccessors) >> ELSE << >>)
                  \o BaseRunInternalCalls(n)
    /\ flowResult' = BaseRunInternalResult
    /\ UNCHANGED <<kind, successors, wires, params, startNode, curr, lastAction, steps>>
    /\ UNCHANGED <<hpc, runAsyncChan, runAsyncClosed, ipc, iPrep, internalChan, internalClosed,
                   opc, orchChan, orchClosed, sent, postArgs, got>>
    /\ UNCHANGED <<retryVars, batchVars, parVars, batchFlowVars, researchVars, runVars, llmVars, parFlowVars>>

\* The graph is wired (A.Next(B, action)), then A is run stand-alone: Run on
\* a node of any kind, RunAsync on an *AsyncNode.
StandaloneNext ==
    \/ \E action \in ActionArgs : entry = "none" /\ Next_("A", "B", action)
    \/ Run("A")
    \/ kind["A"] = "AsyncNode" /\ RunAsync("A")
    \/ RunAsyncBody
    \/ RunAsyncInternalPrep
    \/ AsyncRetryAttempt
    \/ RunAsyncInternalPost
    \/ RunAsyncDeliver
    \/ AwaitRunAsync

\* ======================================================= the research agent
\* The example's node types DecideAction, SearchWebNode and AnswerQuestion are
\* structs embedding *agent.Node that declare their own Prep, Exec and Post.
ResearchNodes == {"Decide", "Search", "Answer"}
ResearchActions == {"search", "answer", "decide", "done", "error", "default", "<nil>"}

\* Values of type interface{} passed between the methods: nil, a string, a
\* decision map, or a value of another type (an error, as a fallback returns).
NilVal == [tag |-> "nil", action |-> "", text |-> ""]
Str(s) == [tag |-> "string", action |-> "", text |-> s]
ErrVal == [tag |-> "error", action |-> "", text |-> "fault"]
MapVal(a, t) == [tag |-> "map", action |-> a, text |-> t]

\* `maxContextLen := 3000`
MaxContextLen == 3000

RECURSIVE Doubled(_, _)
Doubled(str, n) == IF n = 0 THEN str ELSE Doubled(str \o str, n - 1)

\* What the search collaborator SearchWeb returns: nothing, a short text, or
\* a text longer than maxContextLen.
WebResults == {"", "Go is a language.", Doubled("long ", 10)}

\* What a reply of the completion collaborator amounts to once DecideAction.Exec
\* has parsed and validated it.
Replies == {"search", "answer", "invalid"}
ReplySequences == UNION {[1..n -> Replies] : n \in 1..MaxCalls}

HasPrefix(str, prefix) ==
    Len(str) >= Len(prefix) /\ SubSeq(str, 1, Len(prefix)) = prefix

\* DecideAction.Exec, from the validation of the parsed reply on.
DecideActionExec(reply) ==
    CASE reply = "search" -> MapVal("search", "golang")
      [] reply = "answer" -> MapVal("answer", "Go is a language.")
      [] OTHER -> MapVal("error", "Invalid or missing 'action' field in LLM response")

\* DecideAction.Post: the action returned and the store it leaves.
DecideActionPost(sh, execRes) ==
    IF execRes.tag # "map"
    THEN [ret |-> "error", shared |-> sh]
    ELSE IF execRes.action = "error"
    THEN [ret |-> "error", shared |-> [sh EXCEPT !.error = execRes.text]]
    ELSE IF execRes.action = "search"
    THEN [ret |-> "search", shared |-> [sh EXCEPT !.search_query = execRes.text]]
    ELSE IF execRes.action = "answer"
    THEN [ret |-> "answer", shared |-> [sh EXCEPT !.answer = execRes.text]]
    ELSE [ret |-> "error", shared |-> sh]

\* SearchWebNode.Prep: an absent or empty query gives nil.
SearchWebNodePrep(sh) ==
    IF sh.search_query = "" THEN NilVal ELSE Str(sh.search_query)

\* SearchWebNode.Exec: every return is a string.
SearchWebNodeExec(prep, web) ==
    IF prep.tag = "nil" THEN Str("Error: No search query provided.")
    ELSE IF prep.tag # "string" \/ prep.text = ""
    THEN Str("Error: Invalid search query provided.")
    ELSE IF web = "" THEN Str("Search completed, but no results were found.")
    ELSE Str(web)

\* The last maxContextLen bytes behind "..." when the text is longer.
Truncate(text) ==
    IF Len(text) > MaxContextLen
    THEN "..." \o SubSeq(text, Len(text) - MaxContextLen + 1, Len(text))
    ELSE text

\* A Post that returns "decide" whatever it is handed.
SearchWebNodePostAlwaysDecide(sh, prep, execRes) ==
    [ret |-> "decide",
     shared |-> [sh EXCEPT !.context =
                    Truncate(sh.context \o "\n\nSEARCH: " \o sh.search_query
                                 \o "\nRESULTS:\n" \o execRes.text)]]

\* SearchWebNode.Post.
SearchWebNodePost(sh, prep, execRes) ==
    IF execRes.tag # "string"
    THEN [ret |-> "error",
          shared |-> [sh EXCEPT !.error = "Internal error: Search execution failed."]]
    ELSE [ret |-> "decide",
          shared |-> [sh EXCEPT !.context =
                         Truncate(sh.context \o "\n\nSEARCH: " \o sh.search_query
                                      \o "\nRESULTS:\n" \o execRes.text)]]

\* AnswerQuestion.Post.
AnswerQuestionPost(sh, execRes) ==
    IF execRes.tag # "string" \/ execRes.text = ""
    THEN [ret |-> "error",
          shared |-> [sh EXCEPT !.error = "Error: Failed to generate valid answer"]]
    ELSE IF HasPrefix(execRes.text, "Error:")
    THEN [ret |-> "error", shared |-> [sh EXCEPT !.error = execRes.text]]
    ELSE [ret |-> "done", shared |-> [sh EXCEPT !.answer = execRes.text]]

\* CreateResearchAgent, and the shared store RunResearchAgent makes.
CreateResearchAgent ==
    LET none == [a \in ResearchActions |-> NoNode]
    IN /\ kind = [n \in ResearchNodes |-> "Custom"]
       /\ successors = [Decide |-> NextMap(NextMap(none, "Search", "search"),
                                           "Answer", "answer"),
                        Search |-> NextMap(none, "Decide", "decide"),
                        Answer |-> none]
       /\ wires = << <<"Decide", "Search", "search">>, <<"Decide", "Answer", "answer">>,
                     <<"Search", "Decide", "decide">> >>
       /\ params = [n \in ResearchNodes |-> "empty"]
       /\ startNode = "Decide"
       /\ fpc = "build"
       /\ entry = "none"
       /\ curr = NoNode
       /\ lastAction = Nil
       /\ steps = 0
       /\ calls = << >>
       /\ flowResult = Nil
       /\ decisions \in ReplySequences
       /\ visits = 0
       /\ shared = [search_query |-> "", context |-> "", error |-> "", answer |-> ""]
       /\ ownLog = << >>

\* A call of Post on one of the example's nodes: the store and the log after it.
OwnCall(node, execRes, out) ==
    /\ Len(ownLog) < MaxSteps
    /\ shared' = out.shared
    /\ ownLog' = Append(ownLog, <<node, "Post", execRes, out.ret>>)
    /\ UNCHANGED decisions
    /\ UNCHANGED <<flowVars, retryVars, batchVars, parVars, asyncVars, batchFlowVars, runVars, llmVars, parFlowVars>>

\* The lifecycle DecideAction declares, its methods called in order, on the
\* next reply of the LLM.
DecideLifecycle ==
    /\ visits < Len(decisions)
    /\ visits' = visits + 1
    /\ LET execRes == DecideActionExec(decisions[visits + 1])
       IN OwnCall("Decide", execRes, DecideActionPost(shared, execRes))

\* The lifecycle SearchWebNode declares, its methods called in order.
SearchLifecycle(web) ==
    /\ LET prep == SearchWebNodePrep(shared)
           execRes == SearchWebNodeExec(prep, web)
       IN OwnCall("Search", execRes, SearchWebNodePost(shared, prep, execRes))
    /\ UNCHANGED visits

\* SearchWebNode.Post handed what a retry executor returns when Exec did not
\* yield its value: nil, or the fallback's error.
SearchPost(execRes) ==
    /\ OwnCall("Search", execRes, SearchWebNodePost(shared, SearchWebNodePrep(shared), execRes))
    /\ UNCHANGED visits

\* AnswerQuestion.Post on what its Exec returned.
AnswerPost(execRes) ==
    /\ OwnCall("Answer", execRes, AnswerQuestionPost(shared, execRes))
    /\ UNCHANGED visits

\* RunResearchAgent calls researchAgent.Run(shared); orchestrate and
\* runInternal are what the engine's own callers use on a flow.
ResearchNext ==
    \/ FlowRun
    \/ Orchestrate
    \/ FlowRunInternal
    \/ DecideLifecycle
    \/ \E web \in WebResults : SearchLifecycle(web)
    \/ \E execRes \in {NilVal, ErrVal} : SearchPost(execRes)
    \/ \E execRes \in {Str("Go is a language."), Str("Error: LLM model configuration missing."),
                       Str(""), NilVal} : AnswerPost(execRes)

\* ============================== concurrent runs over the same node objects
\* The body of a task of AsyncParallelBatchFlow.runAsyncInternal: params is the
\* flow's params overlaid by the task's override, and
\* `a.orchestrateAsync(shared, params)` starts a run in a goroutine of its own.
\* (runAsyncInternal itself never gets there, its prepSlice being empty: see
\* ResolvePrep.  Here the tasks' bodies are started for the overrides directly.)
\* Every run walks the flow's own node objects: orchestrateAsync makes no copy
\* of the start node.
\* The values a caller can hand over as the shared store: two maps and nil.
NilStore == "nilstore"
Stores == {"s1", "s2", NilStore}
TheStore == "s1"

\* `shared` given as an argument: a Go map value refers to the map it was
\* made from, so the callee works on the caller's instance.
PassMapCopies(st) == IF st = NilStore THEN NilStore ELSE "copy"
PassMap(st) == st

RunsInit ==
    /\ kind = [n \in Nodes |-> "BaseNode"]
    /\ successors = [n \in Nodes |-> NoSuccessors]
    /\ wires = << >>
    /\ params = [n \in Nodes |-> NoParams]
    /\ startNode \in {"A", NoNode}
    /\ fpc = "build"
    /\ entry = "none"
    /\ curr = NoNode
    /\ lastAction = Nil
    /\ steps = 0
    /\ calls = << >>
    /\ flowResult = Nil
    /\ fKind = "Plain"
    /\ ownOverrides = << >>
    /\ fParams \in {NoParams, FlowDefaults}
    /\ runs = << >>
    /\ xpc = << >>
    /\ xcurr = << >>
    /\ xseen = << >>
    /\ xstore = << >>
    /\ content = [st \in Stores |-> "empty"]

\* A task's body up to the start of the orchestrating goroutine, and that
\* goroutine up to its loop (a nil start node ends it at once).
StartRun(over) ==
    /\ Len(runs) < MaxPar
    /\ over.isMap
    /\ entry' = "concurrent"
    /\ fpc' = "async"
    /\ runs' = Append(runs, Merge(fParams, over.map))
    /\ xpc' = Append(xpc, IF startNode = NoNode \/ ~IsBaseNodePtr(startNode)
                          THEN "done" ELSE "at")
    /\ xcurr' = Append(xcurr, startNode)
    /\ xseen' = Append(xseen, << >>)
    /\ xstore' = Append(xstore, PassMap(TheStore))
    /\ UNCHANGED content
    /\ UNCHANGED <<kind, successors, wires, params, startNode, curr, lastAction, steps,
                   calls, flowResult>>
    /\ UNCHANGED <<fKind, ownOverrides, fParams>>
    /\ UNCHANGED <<retryVars, batchVars, parVars, asyncVars, researchVars, llmVars, parFlowVars>>

\* A SetParams that adds the run's entries to the ones the node already has.
RunSetParamsMerging(r) ==
    /\ xpc[r] = "at"
    /\ params' = [params EXCEPT ![xcurr[r]] = Merge(@, runs[r])]
    /\ xpc' = [xpc EXCEPT ![r] = "set"]
    /\ UNCHANGED <<kind, successors, wires, startNode, fpc, entry, curr, lastAction, steps,
                   calls, flowResult>>
    /\ UNCHANGED <<xcurr, xseen, xstore, content>>
    /\ UNCHANGED <<retryVars, batchVars, parVars, asyncVars, batchFlowVars, researchVars, llmVars, parFlowVars>>

\* Run r: `curr.SetParams(params)`: the node's params field now refers to run
\* r's map.
RunSetParams(r) ==
    /\ xpc[r] = "at"
    /\ params' = [params EXCEPT ![xcurr[r]] = runs[r]]
    /\ xpc' = [xpc EXCEPT ![r] = "set"]
    /\ UNCHANGED <<kind, successors, wires, startNode, fpc, entry, curr, lastAction, steps,
                   calls, flowResult>>
    /\ UNCHANGED <<xcurr, xseen, xstore, content>>
    /\ UNCHANGED <<retryVars, batchVars, parVars, asyncVars, batchFlowVars, researchVars, llmVars, parFlowVars>>

\* Run r: `curr.runInternal(shared)` up to the return of Prep; the node's
\* params are whatever its field holds then.
RunPrep(r) ==
    /\ xpc[r] = "set"
    /\ xseen' = [xseen EXCEPT ![r] = Append(@, <<xcurr[r], "Prep", params[xcurr[r]],
                                                 PassMap(xstore[r])>>)]
    /\ calls' = Append(calls, Call(xcurr[r], "Prep", "BaseNode"))
    /\ xpc' = [xpc EXCEPT ![r] = "mid"]
    /\ UNCHANGED <<kind, successors, wires, params, startNode, fpc, entry, curr, lastAction,
                   steps, flowResult>>
    /\ UNCHANGED <<xcurr, xstore, content>>
    /\ UNCHANGED <<retryVars, batchVars, parVars, asyncVars, batchFlowVars, researchVars, llmVars, parFlowVars>>

\* Run r: the rest of runInternal (Exec, Post), GetNextNode, and the next
\* iteration or the end of the loop.
RunExecPost(r) ==
    /\ xpc[r] = "mid"
    /\ xseen' = [xseen EXCEPT ![r] = Append(@, <<xcurr[r], "Post", params[xcurr[r]],
                                                 PassMap(xstore[r])>>)]
    /\ calls' = calls \o << Call(xcurr[r], "Exec", "BaseNode"),
                            Call(xcurr[r], "Post", "BaseNode") >>
    /\ LET nxt == GetNextNode(xcurr[r], Sprintf(BaseRunInternalResult))
       IN IF nxt = NoNode \/ ~IsBaseNodePtr(nxt)
          THEN /\ xpc' = [xpc EXCEPT ![r] = "done"]
               /\ UNCHANGED xcurr
          ELSE /\ xpc' = [xpc EXCEPT ![r] = "at"]
               /\ xcurr' = [xcurr EXCEPT ![r] = nxt]
    /\ UNCHANGED <<kind, successors, wires, params, startNode, fpc, entry, curr, lastAction,
                   steps, flowResult>>
    /\ UNCHANGED <<xstore, content>>
    /\ UNCHANGED <<retryVars, batchVars, parVars, asyncVars, batchFlowVars, researchVars, llmVars, parFlowVars>>

RunsNext ==
    \/ \E action \in ActionArgs : Next_("A", "B", action)
    \/ \E over \in OverrideValues : StartRun(over)
    \/ \E r \in 1..Len(xpc) : RunSetParams(r)
    \/ \E r \in 1..Len(xpc) : RunPrep(r)
    \/ \E r \in 1..Len(xpc) : RunExecPost(r)

\* =================================== orchestrate, one run after the other
\* The parameter maps a caller hands to SetParams.
ParamMaps == {NoParams, FlowDefaults, [p |-> "node", q |-> Absent]}

\* n.SetParams(m), called on a node before any run.
SetParams(n, m) ==
    /\ fpc = "build"
    /\ params[n] = NoParams
    /\ params' = [params EXCEPT ![n] = m]
    /\ UNCHANGED <<kind, successors, wires, startNode, fpc, entry, curr, lastAction, steps,
                   calls, flowResult>>
    /\ UNCHANGED <<retryVars, batchVars, parVars, asyncVars, batchFlowVars, researchVars,
                   runVars, llmVars, parFlowVars>>

\* A call of f.orchestrate(shared, given) up to its loop, made when the calls
\* before it have returned: effective is the map the loop hands to SetParams.
BeginOrchestrate(how, effective) ==
    /\ Len(runs) < MaxCalls
    /\ \A r \in 1..Len(xpc) : xpc[r] = "done"
    /\ entry' = how
    /\ fpc' = "running"
    /\ runs' = Append(runs, effective)
    /\ xpc' = Append(xpc, IF startNode = NoNode \/ ~IsBaseNodePtr(startNode)
                          THEN "done" ELSE "at")
    /\ xcurr' = Append(xcurr, startNode)
    /\ xseen' = Append(xseen, << >>)
    /\ xstore' = Append(xstore, PassMap(TheStore))
    /\ UNCHANGED content
    /\ UNCHANGED <<kind, successors, wires, params, startNode, curr, lastAction, steps,
                   calls, flowResult>>
    /\ UNCHANGED <<fKind, ownOverrides, fParams>>
    /\ UNCHANGED <<retryVars, batchVars, parVars, asyncVars, researchVars, llmVars, parFlowVars>>

\* f.orchestrate(shared, nil), as Flow.runInternal calls it: params is a fresh
\* map holding the entries of f.params.
OrchestrateNilParams == BeginOrchestrate("orchestrate", Merge(NoParams, fParams))

\* One iteration of BatchFlow.runInternal's loop over an element that is a
\* map: b.params overlaid with the element, handed to b.orchestrate.
BatchFlowIteration(over) ==
    /\ over.isMap
    /\ BeginOrchestrate("BatchFlow.runInternal", Merge(fParams, over.map))

SeqRunsNext ==
    \/ \E action \in ActionArgs : Next_("A", "B", action)
    \/ \E n \in Nodes, m \in ParamMaps \ {NoParams} : SetParams(n, m)
    \/ OrchestrateNilParams
    \/ \E over \in OverrideValues : BatchFlowIteration(over)
    \/ \E r \in 1..Len(xpc) : RunSetParams(r)
    \/ \E r \in 1..Len(xpc) : RunPrep(r)
    \/ \E r \in 1..Len(xpc) : RunExecPost(r)

\* ================================ AsyncParallelBatchFlow.runAsyncInternal
\* What the goroutine can hold in prepRes.  a.PrepAsync is AsyncNode.PrepAsync
\* and returns nil; the lists are the values the loop is written for.
OverP == [isMap |-> TRUE, map |-> [p |-> "over", q |-> Absent]]
OverQ == [isMap |-> TRUE, map |-> [p |-> Absent, q |-> "over"]]
NotAMap == [isMap |-> FALSE, map |-> NoParams]
PrepResults ==
    {NilResult} \cup
    {ListResult(l) : l \in {<< >>, <<NotAMap>>, <<OverP>>, <<NotAMap, OverQ>>, <<OverP, OverQ>>}}

ParFlowInit ==
    /\ gpc = "idle"
    /\ gSlice = << >>
    /\ gi = 0
    /\ gwg = 0
    /\ gTask = << >>
    /\ gSignals = << >>
    /\ gPosts = 0
    /\ gChan = << >>
    /\ gClosed = FALSE
    /\ gShared = NilStore
    /\ gRun = << >>
    /\ gPostStore = NilStore

\* The flow the parallel batch flow runs: no start node, the node A alone,
\* or A followed by B under the action a BaseNode's Post yields.
ParFlowGraphInit ==
    /\ kind = [n \in Nodes |-> "BaseNode"]
    /\ \E chained \in BOOLEAN :
          successors = [n \in Nodes |->
                          IF chained /\ n = "A"
                          THEN NextMap(NoSuccessors, "B", Sprintf(BaseRunInternalResult))
                          ELSE NoSuccessors]
    /\ wires = << >>
    /\ params = [n \in Nodes |-> NoParams]
    /\ startNode \in {"A", NoNode}
    /\ fpc = "build"
    /\ entry = "none"
    /\ curr = NoNode
    /\ lastAction = Nil
    /\ steps = 0
    /\ calls = << >>
    /\ flowResult = Nil
    /\ fKind = "Plain"
    /\ ownOverrides = << >>
    /\ fParams = FlowDefaults
    /\ runs = << >>
    /\ xpc = << >>
    /\ xcurr = << >>
    /\ xseen = << >>
    /\ xstore = << >>
    /\ content = [st \in Stores |-> "empty"]

\* a.runAsyncInternal(st): the goroutine up to the range loop, with held as
\* its prepRes: a value that is no list, and a nil list, become the empty list.
ParFlowBody(held, st) ==
    /\ gpc = "idle"
    /\ gpc' = "loop"
    /\ gSlice' = AsSlice(held)
    /\ gi' = 1
    /\ gShared' = st
    /\ UNCHANGED <<gwg, gTask, gSignals, gPosts, gChan, gClosed, gRun, gPostStore>>
    /\ UNCHANGED <<flowVars, retryVars, batchVars, parVars, asyncVars, batchFlowVars,
                   researchVars, runVars, llmVars>>

\* One iteration of the range loop: wg.Add(1) and `go func(batchParams) {...}(bp)`.
ParFlowSpawn ==
    /\ gpc = "loop"
    /\ gi <= Len(gSlice)
    /\ gwg' = gwg + 1
    /\ gTask' = Append(gTask, "new")
    /\ gSignals' = Append(gSignals, 0)
    /\ gRun' = Append(gRun, 0)
    /\ gi' = gi + 1
    /\ UNCHANGED <<gpc, gSlice, gPosts, gChan, gClosed, gShared, gPostStore>>
    /\ UNCHANGED <<flowVars, retryVars, batchVars, parVars, asyncVars, batchFlowVars,
                   researchVars, runVars, llmVars>>

\* A task that leaves at `if !ok { return }` without the deferred wg.Done().
TaskNotAMapNoSignal(i) ==
    /\ gTask[i] = "new"
    /\ ~gSlice[i].isMap
    /\ gTask' = [gTask EXCEPT ![i] = "done"]
    /\ UNCHANGED <<gpc, gSlice, gi, gwg, gSignals, gPosts, gChan, gClosed, gShared, gRun, gPostStore>>
    /\ UNCHANGED <<flowVars, retryVars, batchVars, parVars, asyncVars, batchFlowVars,
                   researchVars, runVars, llmVars>>

\* Task i, whose element is no map: `return`, and the deferred wg.Done().
TaskNotAMap(i) ==
    /\ gTask[i] = "new"
    /\ ~gSlice[i].isMap
    /\ gTask' = [gTask EXCEPT ![i] = "done"]
    /\ gwg' = gwg - 1
    /\ gSignals' = [gSignals EXCEPT ![i] = @ + 1]
    /\ UNCHANGED <<gpc, gSlice, gi, gPosts, gChan, gClosed, gShared, gRun, gPostStore>>
    /\ UNCHANGED <<flowVars, retryVars, batchVars, parVars, asyncVars, batchFlowVars,
                   researchVars, runVars, llmVars>>

\* Task i, whose element is a map: the merged params and
\* a.orchestrateAsync(shared, params), whose goroutine runs up to its loop;
\* the task then waits on orchResChan.
TaskStartsRun(i) ==
    /\ gTask[i] = "new"
    /\ gSlice[i].isMap
    /\ gTask' = [gTask EXCEPT ![i] = "running"]
    /\ gRun' = [gRun EXCEPT ![i] = Len(runs) + 1]
    /\ runs' = Append(runs, Merge(fParams, gSlice[i].map))
    /\ xpc' = Append(xpc, IF startNode = NoNode \/ ~IsBaseNodePtr(startNode)
                          THEN "done" ELSE "at")
    /\ xcurr' = Append(xcurr, startNode)
    /\ xseen' = Append(xseen, << >>)
    /\ xstore' = Append(xstore, PassMap(gShared))
    /\ UNCHANGED content
    /\ UNCHANGED <<gpc, gSlice, gi, gwg, gSignals, gPosts, gChan, gClosed, gShared, gPostStore>>
    /\ UNCHANGED <<fKind, ownOverrides, fParams>>
    /\ UNCHANGED <<flowVars, retryVars, batchVars, parVars, asyncVars, researchVars, llmVars>>

\* The flow run of task i has ended: `<-orchResChan` returns, the task
\* returns, and the deferred wg.Done() runs.
TaskRunEnds(i) ==
    /\ gTask[i] = "running"
    /\ xpc[gRun[i]] = "done"
    /\ gTask' = [gTask EXCEPT ![i] = "done"]
    /\ gwg' = gwg - 1
    /\ gSignals' = [gSignals EXCEPT ![i] = @ + 1]
    /\ UNCHANGED <<gpc, gSlice, gi, gPosts, gChan, gClosed, gShared, gRun, gPostStore>>
    /\ UNCHANGED <<flowVars, retryVars, batchVars, parVars, asyncVars, batchFlowVars,
                   researchVars, runVars, llmVars>>

\* After the loop: wg.Wait() returns when the counter is 0; then
\* a.PostAsync(shared, prepRes, nil), `result <- postResChan` and the deferred
\* close(result).  AsyncFlow.PostAsync returns its execRes, nil.
ParFlowBarrier ==
    /\ gpc = "loop"
    /\ gi > Len(gSlice)
    /\ gwg = 0
    /\ gPosts' = gPosts + 1
    /\ gPostStore' = PassMap(gShared)
    /\ gChan' = Append(gChan, Nil)
    /\ gClosed' = TRUE
    /\ gpc' = "done"
    /\ UNCHANGED <<gSlice, gi, gwg, gTask, gSignals, gShared, gRun>>
    /\ UNCHANGED <<flowVars, retryVars, batchVars, parVars, asyncVars, batchFlowVars,
                   researchVars, runVars, llmVars>>

\* A Prep, Exec or Post that a node's type declares, called with the store st
\* of the flow (a map): it writes an entry, as SearchWebNode.Post writes
\* "context".
OwnPhaseWrites(st) ==
    /\ st # NilStore
    /\ st = gShared
    /\ content[st] = "empty"
    /\ content' = [content EXCEPT ![st] = "written"]
    /\ UNCHANGED <<xpc, xcurr, xseen, xstore>>
    /\ UNCHANGED <<flowVars, retryVars, batchVars, parVars, asyncVars, batchFlowVars,
                   researchVars, llmVars, parFlowVars>>

ParFlowNext ==
    \/ \E held \in PrepResults, st \in Stores : ParFlowBody(held, st)
    \/ ParFlowSpawn
    \/ \E i \in 1..Len(gTask) : TaskNotAMap(i)
    \/ \E i \in 1..Len(gTask) : TaskStartsRun(i)
    \/ \E r \in 1..Len(xpc) : RunSetParams(r)
    \/ \E r \in 1..Len(xpc) : RunPrep(r)
    \/ \E r \in 1..Len(xpc) : RunExecPost(r)
    \/ \E i \in 1..Len(gTask) : TaskRunEnds(i)
    \/ ParFlowBarrier
    \/ OwnPhaseWrites(gShared)

\* ============================================ nodes and flows used again
\* f.Start(start)
Start(n) ==
    /\ fpc = "build"
    /\ entry = "none"
    /\ calls = << >>
    /\ startNode' = n
    /\ calls' = Append(calls, Call(FlowId, "Start", "Flow"))
    /\ UNCHANGED <<kind, successors, wires, params, fpc, entry, curr, lastAction, steps,
                   flowResult>>
    /\ UNCHANGED <<retryVars, batchVars, parVars, asyncVars, batchFlowVars, researchVars,
                   runVars, llmVars, parFlowVars>>

\* No goroutine of an earlier call is still running.
Quiet ==
    /\ hpc \in {"none", "done"}
    /\ ipc \in {"none", "done"}
    /\ opc \in {"none", "done"}
    /\ rpc \in {"idle", "returned"}

\* The caller is through with a call and turns to the same objects again:
\* what the call left in the nodes and the flow stays, the record of the call
\* itself is dropped.
Reuse ==
    /\ fpc = "done" \/ rpc = "returned"
    /\ Quiet
    /\ fpc' = "build"
    /\ entry' = "none"
    /\ curr' = NoNode
    /\ lastAction' = Nil
    /\ steps' = 0
    /\ calls' = << >>
    /\ flowResult' = Nil
    /\ UNCHANGED <<kind, successors, wires, params, startNode>>
    /\ rpc' = "idle"
    /\ rMode' = "sync"
    /\ rCaller' = "direct"
    /\ prepRes' = Nil
    /\ execLog' = << >>
    /\ fbLog' = << >>
    /\ sleeps' = 0
    /\ rResult' = Pending
    /\ rChan' = << >>
    /\ rClosed' = FALSE
    /\ rCalls' = 0
    /\ execTotal' = 0
    /\ UNCHANGED <<rKind, maxRetries, wait, ownFaults, curRetry>>
    /\ aRecv' = NodeId
    /\ hpc' = "none"
    /\ runAsyncChan' = << >>
    /\ runAsyncClosed' = FALSE
    /\ ipc' = "none"
    /\ iPrep' = Nil
    /\ internalChan' = << >>
    /\ internalClosed' = FALSE
    /\ opc' = "none"
    /\ orchChan' = << >>
    /\ orchClosed' = FALSE
    /\ sent' = << >>
    /\ postArgs' = << >>
    /\ got' = << >>
    /\ UNCHANGED <<batchVars, parVars, batchFlowVars, researchVars, runVars, llmVars,
                   parFlowVars>>

\* Wiring and Start between calls; the retry executors called on a node; a
\* flow run by orchestrate, runInternal, Run, orchestrateAsync or
\* runAsyncInternal; and the next use of the same objects.
ReuseNext ==
    \/ \E action \in ActionArgs : entry = "none" /\ Next_("A", "B", action)
    \/ \E n \in Nodes : Start(n)
    \/ \E p \in PrepValues : fpc = "build" /\ ExecInternalCall(p)
    \/ RetryAttempt
    \/ RetryLoopExit
    \/ \E p \in PrepValues : fpc = "build" /\ ExecAsyncInternalCall(p)
    \/ AsyncRetryAttempt
    \/ AsyncRetryLoopExit
    \/ rpc = "idle" /\ Orchestrate
    \/ rpc = "idle" /\ FlowRunInternal
    \/ rpc = "idle" /\ FlowRun
    \/ OrchestrateStep
    \/ rpc = "idle" /\ OrchestrateAsync
    \/ rpc = "idle" /\ FlowRunAsyncInternal
    \/ FlowRunAsyncInternalPrep
    \/ OrchestrateAsyncEnter
    \/ OrchestrateAsyncStep
    \/ FlowRunAsyncInternalPost
    \/ AwaitFlow
    \/ Reuse

\* ============================================= the example's SentLlmPrompt
LlmMaxRetries == 5   \* const maxRetries
RetryDelay == 30     \* const retryDelay, in seconds

\* A part of a candidate's content: genai.Text or another Part type.
TextPart(t) == [isText |-> TRUE, text |-> t]
BlobPart == [isText |-> FALSE, text |-> ""]
Responses == {<< >>, <<TextPart("search")>>, <<TextPart("ans"), BlobPart, TextPart("wer")>>}

\* The strings.Builder loop: the texts of the genai.Text parts, concatenated.
RECURSIVE ResponseText(_)
ResponseText(parts) ==
    IF parts = << >> THEN ""
    ELSE (IF Head(parts).isText THEN Head(parts).text ELSE "") \o ResponseText(Tail(parts))

\* `strings.Contains(err.Error(), "rate limit") || strings.Contains(err.Error(), "server error")`
IsRetryableNever(e) == FALSE
IsRetryable(e) == e = "retryable"

\* `attempt < maxRetries`
MayRetryOnceMore(a) == a <= LlmMaxRetries
MayRetry(a) == a < LlmMaxRetries

LlmOutcomes == {"ok", "retryable", "fatal"}

LlmInit ==
    /\ modelNil \in BOOLEAN
    /\ ctxNil \in BOOLEAN
    /\ llmErrors \in [1..(LlmMaxRetries + 2) -> LlmOutcomes]
    /\ llmResp \in Responses
    /\ llmAttempt = 0
    /\ llmpc = "idle"
    /\ llmCalls = 0
    /\ llmSleeps = 0
    /\ llmTrace = << >>
    /\ llmResult = ""

\* SentLlmPrompt(model, ctx, prompt): the nil checks, then `attempt := 0`.
SentLlmPrompt ==
    /\ llmpc = "idle"
    /\ IF modelNil \/ ctxNil
       THEN /\ llmpc' = "returned"
            /\ llmResult' = ""
       ELSE /\ llmpc' = "loop"
            /\ UNCHANGED llmResult
    /\ llmAttempt' = 0
    /\ UNCHANGED <<modelNil, ctxNil, llmErrors, llmResp, llmCalls, llmSleeps, llmTrace>>
    /\ UNCHANGED <<flowVars, retryVars, batchVars, parVars, asyncVars, batchFlowVars,
                   researchVars, runVars, parFlowVars>>

\* One iteration of `for attempt := 0; attempt <= maxRetries; attempt++`.
LlmAttempt ==
    /\ llmpc = "loop"
    /\ llmAttempt <= LlmMaxRetries
    /\ llmCalls' = llmCalls + 1
    /\ LET err == llmErrors[llmCalls + 1]
       IN IF err = "ok"
          THEN /\ llmpc' = "returned"
               /\ llmResult' = ResponseText(llmResp)
               /\ llmTrace' = Append(llmTrace, "call")
               /\ UNCHANGED <<llmAttempt, llmSleeps>>
          ELSE IF IsRetryable(err)
          THEN IF MayRetry(llmAttempt)
               THEN /\ llmSleeps' = llmSleeps + RetryDelay
                    /\ llmTrace' = llmTrace \o <<"call", "sleep">>
                    /\ llmAttempt' = llmAttempt + 1
                    /\ UNCHANGED <<llmpc, llmResult>>
               ELSE /\ llmpc' = "returned"
                    /\ llmResult' = ""
                    /\ llmTrace' = Append(llmTrace, "call")
                    /\ UNCHANGED <<llmAttempt, llmSleeps>>
          ELSE /\ llmpc' = "returned"
               /\ llmResult' = ""
               /\ llmTrace' = Append(llmTrace, "call")
               /\ UNCHANGED <<llmAttempt, llmSleeps>>
    /\ UNCHANGED <<modelNil, ctxNil, llmErrors, llmResp>>
    /\ UNCHANGED <<flowVars, retryVars, batchVars, parVars, asyncVars, batchFlowVars,
                   researchVars, runVars, parFlowVars>>

\* The final `return ""` after the loop is never reached: the iteration at
\* attempt = maxRetries returns on each of its branches.
LlmNext ==
    \/ SentLlmPrompt
    \/ LlmAttempt

\* The state of a subsystem a specification does not exercise.
FlowIdle ==
    /\ kind = [n \in Nodes |-> "BaseNode"]
    /\ successors = [n \in Nodes |-> NoSuccessors]
    /\ wires = << >>
    /\ params = [n \in Nodes |-> "empty"]
    /\ startNode = NoNode
    /\ fpc = "build"
    /\ entry = "none"
    /\ curr = NoNode
    /\ lastAction = Nil
    /\ steps = 0
    /\ calls = << >>
    /\ flowResult = Nil

RetryIdle ==
    /\ rKind = "Plain"
    /\ maxRetries = 1
    /\ wait = 0
    /\ ownFaults = [k \in 1..MaxRetry |-> FALSE]
    /\ curRetry = 0
    /\ rpc = "idle"
    /\ rMode = "sync"
    /\ rCaller = "direct"
    /\ prepRes = Nil
    /\ execLog = << >>
    /\ fbLog = << >>
    /\ sleeps = 0
    /\ rResult = Pending
    /\ rChan = << >>
    /\ rClosed = FALSE
    /\ rCalls = 0
    /\ execTotal = 0

\* No research agent has been set up.
ResearchIdle ==
    /\ decisions = << >>
    /\ visits = 0
    /\ shared = [search_query |-> "", context |-> "", error |-> "", answer |-> ""]
    /\ ownLog = << >>

\* No concurrent run has been started.
RunsIdle ==
    /\ xpc = << >>
    /\ xcurr = << >>
    /\ xseen = << >>
    /\ xstore = << >>
    /\ content = [st \in Stores |-> "empty"]

\* SentLlmPrompt has not been called.
LlmIdle ==
    /\ modelNil = FALSE
    /\ ctxNil = FALSE
    /\ llmErrors = [k \in 1..(LlmMaxRetries + 2) |-> "ok"]
    /\ llmResp = << >>
    /\ llmAttempt = 0
    /\ llmpc = "idle"
    /\ llmCalls = 0
    /\ llmSleeps = 0
    /\ llmTrace = << >>
    /\ llmResult = ""

\* The parts of the state a specification does not exercise.
OthersIdle == ResearchIdle /\ RunsIdle /\ LlmIdle /\ ParFlowInit

\* ========================================================== specifications
Init ==
    FlowInit /\ RetryIdle /\ BatchIdle /\ ParIdle /\ AsyncIdle /\ BatchFlowIdle
        /\ OthersIdle
Spec == Init /\ [][FlowNext]_vars

\* The same program, with the running loop of orchestrate never suspended for
\* ever: orchestrate is ordinary sequential code of one goroutine.
SpecFair == Init /\ [][FlowNext]_vars /\ WF_vars(OrchestrateStep)

InitRetry ==
    RetryInit /\ FlowIdle /\ BatchIdle /\ ParIdle /\ AsyncIdle /\ BatchFlowIdle
        /\ OthersIdle
SpecRetry == InitRetry /\ [][RetryNext]_vars

InitBatch ==
    BatchInit /\ FlowIdle /\ ParIdle /\ AsyncIdle /\ BatchFlowIdle
        /\ OthersIdle
SpecBatch == InitBatch /\ [][BatchNext]_vars

SpecAsyncBatch == InitBatch /\ [][AsyncBatchNext]_vars

InitPar ==
    ParInit /\ FlowIdle /\ BatchIdle /\ AsyncIdle /\ BatchFlowIdle
        /\ OthersIdle
SpecPar == InitPar /\ [][ParNext]_vars

\* RunAsync on a node of either dynamic type and any retry policy, or on an
\* AsyncFlow (whose embedded AsyncNode has the policy (1, 0)) with or without
\* a start node.
AsyncNodeFlowInit ==
    /\ kind = [n \in Nodes |-> "BaseNode"]
    /\ successors = [n \in Nodes |-> NoSuccessors]
    /\ wires = << >>
    /\ params = [n \in Nodes |-> "empty"]
    /\ startNode \in {"A", NoNode}
    /\ fpc = "build"
    /\ entry = "none"
    /\ curr = NoNode
    /\ lastAction = Nil
    /\ steps = 0
    /\ calls = << >>
    /\ flowResult = Nil

InitBatchFlow ==
    AsyncNodeFlowInit /\ BatchFlowInit /\ RetryIdle /\ BatchIdle /\ ParIdle /\ AsyncIdle
        /\ OthersIdle
SpecBatchFlow == InitBatchFlow /\ [][BatchFlowNext]_vars

InitGraph ==
    GraphInit /\ GraphRetryInit /\ BatchIdle /\ ParIdle /\ AsyncIdle /\ BatchFlowIdle
        /\ OthersIdle
SpecGraph == InitGraph /\ [][GraphNext]_vars

InitAsyncNode ==
    RetryInit /\ AsyncNodeFlowInit /\ BatchIdle /\ ParIdle /\ AsyncIdle /\ BatchFlowIdle
        /\ OthersIdle
SpecAsyncNode == InitAsyncNode /\ [][AsyncNodeNext]_vars

SpecStandalone == InitGraph /\ [][StandaloneNext]_vars

\* Nodes that are plain BaseNodes or Nodes, with any retry policy NewNode
\* accepts and an Exec of their own that panics.
InitReuse ==
    /\ GraphInit /\ kind \in [Nodes -> {"BaseNode", "Node"}]
    /\ RetryInit /\ rKind = "Custom" /\ maxRetries >= 0 /\ wait = 1
    /\ ownFaults = [k \in 1..MaxRetry |-> TRUE]
    /\ BatchIdle /\ ParIdle /\ AsyncIdle /\ BatchFlowIdle /\ OthersIdle
SpecReuse == InitReuse /\ [][ReuseNext]_vars

InitRuns ==
    RunsInit /\ RetryIdle /\ BatchIdle /\ ParIdle /\ AsyncIdle /\ ResearchIdle
        /\ LlmIdle /\ ParFlowInit
SpecRuns == InitRuns /\ [][RunsNext]_vars

SpecSeqRuns == InitRuns /\ [][SeqRunsNext]_vars

InitResearch ==
    CreateResearchAgent /\ RetryIdle /\ BatchIdle /\ ParIdle /\ AsyncIdle /\ BatchFlowIdle
        /\ RunsIdle /\ LlmIdle /\ ParFlowInit
SpecResearch == InitResearch /\ [][ResearchNext]_vars

InitLlm ==
    LlmInit /\ FlowIdle /\ RetryIdle /\ BatchIdle /\ ParIdle /\ AsyncIdle /\ BatchFlowIdle
        /\ ResearchIdle /\ RunsIdle /\ ParFlowInit
SpecLlm == InitLlm /\ [][LlmNext]_vars

\* The goroutines of the parallel batch flow are scheduled again and again,
\* and the flow run a task waits for terminates.
InitParFlow ==
    ParFlowGraphInit /\ RetryIdle /\ BatchIdle /\ ParIdle /\ AsyncIdle /\ ResearchIdle
        /\ LlmIdle /\ ParFlowInit
SpecParFlow == InitParFlow /\ [][ParFlowNext]_vars /\ WF_vars(ParFlowNext)


\* ------------------------------------------------------- retry: properties
\* The Exec the node's type declares panics at every attempt of the policy.
AlwaysFaults == \A k \in 1..MaxRetry : ownFaults[k]

\* The value the caller of the executor gets: the return value, or the value
\* received from the handle (the zero value when it is closed and empty).
Delivered ==
    IF rMode = "sync" THEN rResult
    ELSE IF rChan # << >> THEN rChan[1] ELSE Nil

\* C3 (as claimed): for a node whose Exec faults at every attempt, with
\* maxRetries = n >= 1, Node.execInternal invokes Exec n times and returns
\* ExecFallback(prepRes, err), err being the fault.
C3_ExhaustionReturnsFallback ==
    (rMode = "sync" /\ rpc = "returned" /\ rKind = "Custom" /\ AlwaysFaults
        /\ maxRetries >= 1) =>
            /\ Len(execLog) = maxRetries
            /\ rResult = ExecFallback(prepRes, FaultErr)

\* C4: in a call of either retry executor Exec is invoked at most maxRetries
\* times; a successful attempt is the last one, its value is what the call
\* yields and no fallback goes with it; the fallback is invoked at most once,
\* and only when maxRetries attempts were made and all of them failed.
C4_RetryBudget ==
    /\ Len(execLog) <= (IF maxRetries > 0 THEN maxRetries ELSE 0)
    /\ Len(fbLog) <= 1
    /\ fbLog # << >> =>
          /\ Len(execLog) = maxRetries
          /\ \A i \in 1..Len(execLog) : execLog[i][3]
          /\ rpc = "returned"
          /\ Delivered = ExecFallback(prepRes, fbLog[1])
    /\ \A i \in 1..Len(execLog) :
          ~execLog[i][3] =>
              /\ i = Len(execLog)
              /\ fbLog = << >>
              /\ rpc = "returned"
              /\ Delivered = execLog[i][4]

C4_Witness ==
    /\ rMode = "sync" /\ rpc = "returned" /\ maxRetries = 3
    /\ Len(execLog) = 1 /\ ~execLog[1][3]
    /\ rResult = execLog[1][4]
    /\ fbLog = << >>

\* C5 (as claimed): the fault of an Exec or ExecAsync that panics at every
\* attempt is converted to an error, and that error is what the fallback is
\* handed once the retries are exhausted.
C5_FaultIsHandedToFallback ==
    (rpc = "returned" /\ rKind = "Custom" /\ AlwaysFaults /\ maxRetries >= 1) =>
        fbLog = << FaultErr >>

\* C13 (as claimed): AsyncNode.execAsyncInternal with maxRetries = n >= 1, on a
\* node whose ExecAsync faults at every attempt, invokes that ExecAsync n times
\* and delivers the single value ExecFallbackAsync(prepRes, err), err carrying
\* the fault, before the handle is closed.
C13_AsyncExhaustionDeliversFallback ==
    (rMode = "async" /\ rpc = "returned" /\ rKind = "Custom" /\ AlwaysFaults
        /\ maxRetries >= 1) =>
        /\ rClosed
        /\ Len(execLog) = maxRetries
        /\ \A i \in 1..Len(execLog) : execLog[i][1] = "Own" /\ execLog[i][3]
        /\ fbLog = << FaultErr >>
        /\ rChan = << ExecFallback(prepRes, FaultErr) >>


\* ------------------------------------------------------- batch: properties
\* What the node's retry policy yields over the Exec its own type declares.
OwnRetryResult(p) ==
    IF maxRetries < 1 THEN Nil
    ELSE IF rKind = "Plain" THEN BaseExec
    ELSE IF \E k \in 1..maxRetries : ~ownFaults[k] THEN OwnExecValue(p)
    ELSE ExecFallback(p, FaultErr)

\* C9 (as claimed): over a list of length k BatchNode.execInternal returns a
\* list of length k whose i-th entry is the retry-wrapped result of the node's
\* Exec for the i-th item; for nil or a value that is no list it returns an
\* empty list and invokes no Exec.
C9_BatchMapsExecOverItems ==
    bpc = "returned" =>
        IF bItems.tag = "list"
        THEN /\ Len(bResults) = Len(bItems.list)
             /\ \A i \in 1..Len(bResults) : bResults[i] = OwnRetryResult(bItems.list[i])
        ELSE /\ bResults = << >>
             /\ execTotal = 0


\* ---------------------------------------------- parallel batch: properties
\* What the node's retry policy yields over the ExecAsync its own type declares.
OwnAsyncRetryResult(p) ==
    IF maxRetries < 1 THEN Nil
    ELSE IF rKind = "Plain" THEN BaseExecAsync
    ELSE IF \E k \in 1..maxRetries : ~ownFaults[k] THEN OwnExecAsyncValue(p)
    ELSE ExecFallback(p, FaultErr)

\* C10 (as claimed): for a list of length k (here k >= 1, maxRetries >= 1), what the caller
\* receives from the handle of AsyncParallelBatchNode.execAsyncInternal is a
\* list of length k whose i-th entry is the retry-wrapped result of the node's
\* ExecAsync for the i-th item, whatever the interleaving.
C10_HandleYieldsOrderedResults ==
    (pItems.tag = "list" /\ Len(pItems.list) >= 1 /\ maxRetries >= 1
        /\ received # NothingReceived) =>
        /\ received.tag = "list"
        /\ Len(received.list) = Len(pItems.list)
        /\ \A i \in 1..Len(received.list) :
              received.list[i] = OwnAsyncRetryResult(pItems.list[i])

\* C11: in AsyncParallelBatchNode.execAsyncInternal over a list of k items one
\* task is started per item, and the collector gathers and publishes the
\* aggregate only after all k tasks have deposited their result and finished:
\* a list the handle holds or the caller received was published behind the
\* barrier and has k entries.
C11_CompletionBarrier ==
    pItems.tag = "list" =>
        LET k == Len(pItems.list)
        IN  /\ lpc \in {"collector", "closing", "done"} =>
                  /\ Len(tpc) = k
                  /\ \A i \in 1..k : tpc[i] # "unborn"
            /\ cpc \in {"gathered", "published", "panicked"} =>
                  /\ wg = 0
                  /\ \A i \in 1..k : tpc[i] = "done"
            /\ resultBuf # << >> =>
                  /\ cpc = "published"
                  /\ Len(resultBuf[1]) = k
            /\ received.tag = "list" =>
                  /\ cpc = "published"
                  /\ Len(received.list) = k
                  /\ \A i \in 1..k : tpc[i] = "done"

C11_Witness ==
    /\ pItems.tag = "list" /\ Len(pItems.list) = 2
    /\ cpc = "published"
    /\ received.tag = "list" /\ Len(received.list) = 2
    /\ \A i \in 1..2 : tpc[i] = "done" /\ tExecs[i] # << >>


\* ---------------------------------------------------- RunAsync: properties
\* C12 (as claimed): the handle AsyncNode.RunAsync returned is single-fire: at
\* most one value is ever sent on it, it is closed once that value is sent,
\* the caller's first receive yields it, and the value is the result of the
\* node's PostAsync called with the node's PrepAsync result and the
\* retry-wrapped result of the node's ExecAsync.
C12_RunAsyncDeliversPostAsync ==
    (entry = "RunAsync" /\ aRecv = NodeId) =>
        LET prep == OwnPrepAsync(NodeId)
            exec == OwnAsyncRetryResult(prep)
        IN  /\ Len(sent) <= 1
            /\ runAsyncClosed <=> (Len(sent) = 1)
            /\ got # << >> => (sent # << >> /\ got[1] = sent[1])
            /\ (sent # << >> /\ maxRetries >= 1) =>
                  /\ postArgs = << <<NodeId, prep, exec>> >>
                  /\ sent[1] = OwnPostAsync(NodeId, exec)

\* C15 (as claimed): the value RunAsync on an AsyncFlow delivers is the last
\* action of the node loop started at the flow's start node, passed through
\* AsyncFlow.PostAsync: by the time it is delivered the start node's lifecycle
\* has run and AsyncFlow.PostAsync was called with the loop's result.
C15_FlowRunAsyncYieldsFinalAction ==
    (entry = "RunAsync" /\ aRecv = FlowId /\ startNode # NoNode /\ sent # << >>) =>
        /\ \E i \in 1..Len(calls) : calls[i][1] = startNode
        /\ \E i \in 1..Len(calls) : calls[i] = Call(FlowId, "PostAsync", "AsyncFlow")
        /\ sent[1] = lastAction

\* -------------------------------------------------------- flow: properties
\* The node whose lifecycle ran last.
LastRun == calls[Len(calls) - (IF calls[Len(calls)][1] = FlowId THEN 1 ELSE 0)][1]

\* The lifecycle of n's own method set occupies calls[i .. i+2].
RanOwnLifecycleAt(n, i) ==
    /\ Len(calls) >= i + 2
    /\ calls[i] = Call(n, "Prep", OwnImpl(n))
    /\ calls[i + 1] = Call(n, "Exec", OwnImpl(n))
    /\ calls[i + 2] = Call(n, "Post", OwnImpl(n))

\* GetNextNode logs "Flow ends" when the key is absent and the map is not empty.
WarnsFlowEnds(n, action) ==
    /\ successors[n][NormalizeAction(action)] = NoNode
    /\ \E a \in ActionArgs : successors[n][a] # NoNode

\* The index of the latest Next call on n filed under the key of action, 0 if none.
LatestWire(n, action) ==
    LET hits == {i \in 1..Len(wires) :
                    /\ wires[i][1] = n
                    /\ (IF wires[i][3] = "" THEN "default" ELSE wires[i][3])
                         = (IF action = "" THEN "default" ELSE action)}
    IN  IF hits = {} THEN 0 ELSE CHOOSE i \in hits : \A j \in hits : j <= i

\* C1 (as claimed): with A.Next(B, "x"), a flow started at A runs the Prep, Exec
\* and Post of A's own method set, in that order, and then the lifecycle of the
\* successor registered under the action A's Post returned, if and only if
\* there is one.
C1_FlowRunsOwnLifecycles ==
    (entry = "orchestrate" /\ fpc = "done" /\ startNode = "A"
        /\ successors["A"]["x"] = "B") =>
        LET nxt == successors["A"][NormalizeAction(Sprintf(OwnPost("A")))]
        IN  /\ RanOwnLifecycleAt("A", 1)
            /\ (nxt # NoNode) => RanOwnLifecycleAt(nxt, 4)
            /\ (nxt = NoNode) => Len(calls) = 3

\* C2 (as claimed): Flow.Run runs the flow's Prep, the node loop from the start
\* node, the flow's Post, and returns the last action of the last node executed.
C2_RunDrivesTheLoop ==
    (entry = "Run" /\ fpc = "done" /\ startNode # NoNode) =>
        /\ calls[1] = Call(FlowId, "Prep", "BaseNode")
        /\ \E i \in 1..Len(calls) : calls[i][1] = startNode
        /\ calls[Len(calls)] = Call(FlowId, "Post", "Flow")
        /\ flowResult = lastAction

\* The key the router files an action value under: its "%v" text, "default"
\* for the empty text.
ActionKey(v) == IF v = Nil THEN "<nil>" ELSE IF v = "" THEN "default" ELSE v

C7_EmptyActionIsDefault ==
    /\ \A n \in Nodes : successors[n][""] = NoNode
    /\ \A i \in 1..Len(wires) :
          (wires[i][3] = "" /\ LatestWire(wires[i][1], "default") = i) =>
              /\ GetNextNode(wires[i][1], "") = wires[i][2]
              /\ GetNextNode(wires[i][1], "default") = wires[i][2]

C7_Witness ==
    /\ Len(wires) = 2
    /\ wires[1] = <<"A", "B", "">>
    /\ wires[2][3] = "x"
    /\ GetNextNode("A", "") = "B"

LifecycleOf(n) ==
    IF kind[n] = "AsyncNode" THEN AsyncRunInternalCalls(n) ELSE BaseRunInternalCalls(n)

\* C14 (as claimed): orchestrateAsync runs an async-capable current node
\* through its async lifecycle and a node without the capability through its
\* synchronous lifecycle, and a graph mixing both is traversed in routing
\* order: the start node first, then the successor registered under the
\* action it delivered.  (Nodes here are plain *BaseNode and *AsyncNode
\* values, whose lifecycle methods all return nil.)
C14_AsyncLoopRunsBothKinds ==
    (entry = "orchestrateAsync" /\ opc = "done" /\ startNode = "A"
        /\ \A n \in Nodes : kind[n] \in {"BaseNode", "AsyncNode"}) =>
        LET nxt == successors["A"][ActionKey(Nil)]
        IN  /\ Len(calls) >= 3
            /\ SubSeq(calls, 1, 3) = LifecycleOf("A")
            /\ nxt # NoNode =>
                  /\ Len(calls) >= 6
                  /\ SubSeq(calls, 4, 6) = LifecycleOf(nxt)

\* C19 (as claimed): when the outer flow routes to a successor that is a
\* Flow, the inner flow runs as a node: its Prep, its node loop, its Post,
\* after the lifecycle of the node that routed to it.
C19_NestedFlowRunsAsNode ==
    (entry = "orchestrate" /\ fpc = "done" /\ startNode = "A" /\ kind["A"] = "BaseNode"
        /\ kind["B"] = "Flow" /\ successors["A"][ActionKey(lastAction)] = "B") =>
        /\ Len(calls) >= 5
        /\ calls[4] = Call("B", "Prep", "BaseNode")
        /\ \E i \in 5..Len(calls) : calls[i] = Call("B", "Post", "Flow")

\* The calls of phase made on node n.
CallsOf(n, phase) == SelectSeq(calls, LAMBDA c : c[1] = n /\ c[2] = phase)

\* C20 (as claimed): a step of the flow loop on a node with the retry policy
\* (n, w) whose Exec fails at every attempt invokes that Exec n times, then
\* the node's Post, and the flow does not halt before them.
C20_StepRunsRetryExecutor ==
    (entry = "orchestrate" /\ fpc = "done" /\ startNode = "A" /\ kind["A"] = "Node"
        /\ AlwaysFaults) =>
        /\ Len(CallsOf("A", "Exec")) = maxRetries
        /\ Len(CallsOf("A", "Post")) = 1
        /\ steps >= 1

\* -------------------------------------------------- batch flows: properties
\* The list the Prep (PrepAsync) in the batch flow's own method set returns.
OwnPrepResult == IF fKind = "Custom" THEN ListResult(ownOverrides) ELSE NilResult

\* The params of the runs that list asks for, in input order.
OwnRuns == RunsOf(AsSlice(OwnPrepResult))

\* r holds the same runs as OwnRuns, in some order.
IsReorderingOfOwnRuns(r) ==
    /\ Len(r) = Len(OwnRuns)
    /\ \E o \in Orders(Len(r)) : \A j \in 1..Len(r) : r[j] = OwnRuns[o[j]]

\* C16 (as claimed): AsyncParallelBatchFlow.runAsyncInternal starts one flow
\* run per parameter override its Prep returned, and once all of them have
\* completed calls the batch flow's PostAsync once, with the batch Prep result
\* and no run outcome.
C16_ParallelRunsThenPost ==
    (entry = "AsyncParallelBatchFlow.runAsyncInternal" /\ ipc = "done"
        /\ startNode # NoNode /\ Len(OwnRuns) >= 1) =>
        /\ IsReorderingOfOwnRuns(runs)
        /\ postArgs = << <<FlowId, OwnPrepResult, Nil>> >>
        /\ calls[Len(calls)] = Call(FlowId, "PostAsync", "AsyncFlow")

\* C17 (as claimed): BatchFlow.runInternal and AsyncBatchFlow.runAsyncInternal
\* make one flow run per parameter override their Prep returned, one after the
\* other in input order, each with the flow's params overlaid by the override
\* (the override wins on a shared key).
C17_SequentialRunsWithMergedParams ==
    (startNode # NoNode /\
        ((entry = "BatchFlow.runInternal" /\ fpc = "done")
            \/ (entry = "AsyncBatchFlow.runAsyncInternal" /\ ipc = "done"))) =>
        /\ Len(runs) = Len(OwnRuns)
        /\ \A j \in 1..Len(OwnRuns) : runs[j] = OwnRuns[j]

\* C18 (as claimed): the batch flow's Post runs exactly once per batch run,
\* after every per-override run, and is handed the batch's Prep result and nil
\* as the exec result; with an empty or absent list there is no run and Post
\* still runs once.
C18_PostOnceWithPrepResult ==
    (entry = "BatchFlow.runInternal" /\ fpc = "done" /\ startNode # NoNode) =>
        /\ Len(CallsOf(FlowId, "Post")) = 1
        /\ calls[Len(calls)][2] = "Post"
        /\ Len(postArgs) = 1
        /\ postArgs[1][3] = Nil
        /\ IF AsSlice(OwnPrepResult) = << >>
           THEN runs = << >>
           ELSE /\ postArgs[1][2] = OwnPrepResult
                /\ Len(runs) = Len(OwnRuns)

\* ------------------------------------------------- successor map: properties
\* The Next call that a step appended to wires.
NewWire == wires'[Len(wires')]

\* C26: a Next call files its node under the key of its action, replacing
\* whatever was filed there, and leaves the entry of every other key, and the
\* map of every other node, as it was.
C26_NextOverwritesOneKey ==
    [][ Len(wires') = Len(wires) + 1 =>
            /\ successors'[NewWire[1]][ActionKey(NewWire[3])] = NewWire[2]
            /\ \A n \in Nodes, k \in ActionArgs :
                  (n # NewWire[1] \/ k # ActionKey(NewWire[3])) =>
                      successors'[n][k] = successors[n][k] ]_vars

\* A key registered twice holds the node of the second call.
C26_Witness ==
    /\ Len(wires) >= 2
    /\ wires[1] = <<"A", "B", "x">>
    /\ wires[2] = <<"A", "A", "x">>
    /\ successors["A"]["x"] = "A"
    /\ successors["A"]["default"] = NoNode

\* C28 (as claimed): when the node that ran returned no action (nil, as
\* BaseNode.Post does) and a successor is registered under "default", that
\* successor is the node that runs next.
C28_NilActionRoutesToDefault ==
    (entry = "orchestrate" /\ fpc = "done" /\ startNode = "A"
        /\ kind["A"] = "BaseNode" /\ kind["B"] = "BaseNode"
        /\ successors["A"]["default"] = "B") =>
            /\ Len(calls) >= 6
            /\ SubSeq(calls, 4, 6) = BaseRunInternalCalls("B")

\* ------------------------------------------------ retry waits: properties
\* C23 (as claimed): a call of either retry executor on a node whose Exec
\* faults at every attempt, with maxRetries = n >= 1, has slept n-1 times when
\* it returns if wait > 0 (once between each two consecutive attempts, not
\* after the last), and never if wait = 0.
C23_WaitsBetweenAttempts ==
    (rpc = "returned" /\ rKind = "Custom" /\ AlwaysFaults /\ maxRetries >= 1) =>
        sleeps = (IF wait > 0 THEN maxRetries - 1 ELSE 0)

\* ------------------------------------------- batch retry budget: properties
\* C24 (as claimed): over a list of k >= 2 items, on a node whose Exec faults
\* at every attempt, with maxRetries = n >= 1, BatchNode.execInternal gives
\* every element its own n attempts (k * n invocations of Exec in all), goes on
\* to the later elements after an element fell back, and stores for every
\* element the fallback's result for that element.
C24_EveryElementHasFullBudget ==
    (bpc = "returned" /\ bItems.tag = "list" /\ Len(bItems.list) >= 2
        /\ rKind = "Custom" /\ AlwaysFaults /\ maxRetries >= 1) =>
            /\ execTotal = Len(bItems.list) * maxRetries
            /\ Len(bResults) = Len(bItems.list)
            /\ \A j \in 1..Len(bResults) :
                  bResults[j] = ExecFallback(bItems.list[j], FaultErr)

\* --------------------------------------- parallel batch faults: properties
\* C25 (as claimed): over a list of k >= 2 items, on a node whose ExecAsync
\* faults at every attempt, with maxRetries = n >= 1, every task of
\* AsyncParallelBatchNode.execAsyncInternal makes its own n attempts and has
\* its fallback's result in its slot, whatever became of the other tasks, and
\* the aggregate of the k slots is published.
C25_FaultingTasksFillTheirSlots ==
    (pItems.tag = "list" /\ Len(pItems.list) >= 2 /\ lpc \notin {"idle", "check"}
        /\ rKind = "Custom" /\ AlwaysFaults /\ maxRetries >= 1) =>
            /\ \A i \in 1..Len(tpc) :
                  tpc[i] = "done" =>
                      /\ Len(tExecs[i]) = maxRetries
                      /\ \A e \in 1..Len(tExecs[i]) : tExecs[i][e] = <<"Own", TRUE>>
            /\ cpc \in {"gathered", "published", "panicked"} =>
                  \A i \in 1..Len(results) :
                      results[i] = ExecFallback(pItems.list[i], FaultErr)
            /\ cpc # "panicked"
            /\ received # NothingReceived =>
                  received = [tag |-> "list", list |-> results]

\* ------------------------------------------- result channel: properties
\* C29 (as claimed): the channel AsyncParallelBatchNode.execAsyncInternal
\* returned is closed only once the aggregate has been sent on it; no goroutine
\* sends on it after it was closed, and the caller never receives the zero
\* value of a channel closed empty.
C29_ClosedOnlyAfterSend ==
    /\ (resultClosed /\ pItems.tag = "list") => cpc = "published"
    /\ cpc # "panicked"
    /\ received.tag # "nil"

\* ------------------------------------------- stand-alone runs: properties
\* The lifecycle calls among calls, and the warnings.
LifecycleCalls == SelectSeq(calls, LAMBDA c : c[2] # "log")
Warnings == SelectSeq(calls, LAMBDA c : c[2] = "log")

IsPrefix(a, b) == Len(a) <= Len(b) /\ SubSeq(b, 1, Len(a)) = a

\* C22: a node run stand-alone, by Run or by RunAsync, goes through one
\* lifecycle on that node and nothing else: no call is made on any other node,
\* whatever successors are registered and whatever action came back, no
\* orchestration loop is entered, and the successors show only as one warning,
\* logged exactly when the node has any.
C22_StandaloneRunsOnlyItself ==
    (entry \in {"Node.Run", "RunAsync"} /\ aRecv \in Nodes) =>
        /\ \A i \in 1..Len(calls) : calls[i][1] = aRecv
        /\ curr = NoNode /\ steps = 0
        /\ entry = "Node.Run" =>
              /\ LifecycleCalls = BaseRunInternalCalls(aRecv)
              /\ Len(Warnings) = (IF HasSuccessors(aRecv) THEN 1 ELSE 0)
        /\ entry = "RunAsync" =>
              /\ IsPrefix(LifecycleCalls, << Call(aRecv, "PrepAsync", "AsyncNode"),
                                             Call(aRecv, "PostAsync", "AsyncNode") >>)
              /\ execTotal <= 1
              /\ hpc = "done" => (Len(LifecycleCalls) = 2 /\ execTotal = 1)
              /\ hpc \notin {"none", "started"} =>
                    Len(Warnings) = (IF HasSuccessors(aRecv) THEN 1 ELSE 0)

\* A has B registered under the very key its action is looked up under in a
\* flow, and its stand-alone Run made the warning and A's three calls only.
C22_Witness ==
    /\ entry = "Node.Run" /\ aRecv = "A"
    /\ successors["A"][ActionKey(flowResult)] = "B"
    /\ calls = << Call("A", "log", WontRunSuccessors) >> \o BaseRunInternalCalls("A")

\* ------------------------------------------- research agent: properties
\* The nodes whose lifecycle the flow started, in order.
Visited ==
    LET preps == SelectSeq(calls, LAMBDA c : c[1] # FlowId /\ c[2] = "Prep")
    IN  [i \in 1..Len(preps) |-> preps[i][1]]

\* C21 (as claimed): a finished run of the research agent's flow in which the
\* LLM first decides "search" and then "answer" has executed Decide, Search,
\* Decide, Answer, in that order and nothing else, and its final action is the
\* "done" of Answer.
C21_VisitsDecideSearchDecideAnswer ==
    (entry \in {"Run", "runInternal", "orchestrate"} /\ fpc = "done"
        /\ Len(decisions) = 2 /\ decisions[1] = "search" /\ decisions[2] = "answer") =>
            /\ Visited = << "Decide", "Search", "Decide", "Answer" >>
            /\ flowResult = "done"

HasSuffix(str, suffix) ==
    Len(str) >= Len(suffix) /\ SubSeq(str, Len(str) - Len(suffix) + 1, Len(str)) = suffix

\* The Post calls made on SearchWebNode.
SearchPosts == SelectSeq(ownLog, LAMBDA e : e[1] = "Search" /\ e[2] = "Post")

\* The call that a step appended to ownLog.
NewOwnCall == ownLog'[Len(ownLog')]

C37_EmptyBudgetRunsNothing ==
    (maxRetries <= 0 /\ rpc = "returned") =>
        /\ execLog = << >>
        /\ fbLog = << >>
        /\ sleeps = 0
        /\ rMode = "sync" => rResult = Nil
        /\ rMode = "async" => (rChan = << >> /\ rClosed)

C37_Witness ==
    /\ maxRetries = 0 /\ rpc = "returned" /\ rMode = "async"
    /\ rClosed /\ rChan = << >> /\ rCalls = 2

\* C39: Node.execInternal starts every call with curRetry = 0; at every Exec
\* invocation 0 <= curRetry < maxRetries and curRetry is the number of
\* attempts of this call that failed before it; ExecFallback is invoked only
\* at curRetry = maxRetries - 1.
C39_CurRetryCountsFailedAttempts ==
    rMode = "sync" =>
        /\ (rpc = "loop" /\ execLog = << >>) => curRetry = 0
        /\ \A k \in 1..Len(execLog) :
              /\ execLog[k][2] = k - 1
              /\ 0 <= execLog[k][2] /\ execLog[k][2] < maxRetries
        /\ fbLog # << >> => curRetry = maxRetries - 1

C39_Witness ==
    /\ rMode = "sync" /\ rpc = "returned" /\ rCalls = 2
    /\ Len(execLog) = 1 /\ execLog[1][2] = 0 /\ curRetry = 0
    /\ maxRetries = 3

\* ------------------------------------------------ SentLlmPrompt: properties
\* The calls made before the k-th all ended in a retryable error.
EarlierCallsRetryable(k) == \A j \in 1..(k - 1) : llmErrors[j] = "retryable"

\* C38: SentLlmPrompt calls the model at most maxRetries + 1 = 6 times; it
\* returns the text of the first successful call; after a non-retryable
\* error it returns "" at once, without sleeping or calling again; after a
\* retryable error it sleeps retryDelay and tries again, and returns "" once
\* the last attempt has failed; with a nil model or context it returns ""
\* without any call.
C38_AtMostSixCalls ==
    /\ LlmMaxRetries + 1 = 6
    /\ llmCalls <= LlmMaxRetries + 1
    /\ llmpc = "loop" =>
          /\ llmAttempt <= LlmMaxRetries
          /\ llmCalls = llmAttempt
          /\ llmSleeps = RetryDelay * llmCalls
          /\ EarlierCallsRetryable(llmCalls + 1)
    /\ llmpc = "returned" =>
          IF modelNil \/ ctxNil
          THEN llmCalls = 0 /\ llmSleeps = 0 /\ llmResult = ""
          ELSE /\ llmCalls >= 1
               /\ EarlierCallsRetryable(llmCalls)
               /\ llmSleeps = RetryDelay * (llmCalls - 1)
               /\ llmTrace[Len(llmTrace)] = "call"
               /\ llmErrors[llmCalls] = "ok" => llmResult = ResponseText(llmResp)
               /\ llmErrors[llmCalls] = "fatal" => llmResult = ""
               /\ llmErrors[llmCalls] = "retryable" =>
                      (llmCalls = LlmMaxRetries + 1 /\ llmResult = "")

\* Five retryable errors, five sleeps of 30 seconds, then the sixth call succeeds with a
\* response whose text parts are "ans" and "wer" around a part that is not text.
C38_Witness ==
    /\ llmpc = "returned" /\ llmCalls = 6 /\ llmSleeps = 150
    /\ llmErrors[6] = "ok" /\ llmResult = "answer"

\* ------------------------------------------------ orchestrate: termination
\* The nodes registered as a successor of n, under any action.
SuccessorsOf(n) == {successors[n][a] : a \in ActionArgs} \ {NoNode}

\* The nodes reachable from the nodes of S by zero or more successor edges.
RECURSIVE Closure(_)
Closure(S) ==
    LET more == S \cup UNION {SuccessorsOf(n) : n \in S}
    IN  IF more = S THEN S ELSE Closure(more)

ReachableFromStart == IF startNode = NoNode THEN {} ELSE Closure({startNode})

\* No node reachable from the start node reaches itself again.
AcyclicFromStart == \A n \in ReachableFromStart : n \notin Closure(SuccessorsOf(n))

\* C36: when the successor graph reachable from the start node is acyclic,
\* Flow.orchestrate executes at most as many node steps as there are reachable
\* nodes and then returns; only a cycle of registered successors lets a run
\* take more steps than that.
C36_AcyclicRunTerminates ==
    /\ [](AcyclicFromStart => steps <= Cardinality(ReachableFromStart))
    /\ []((fpc = "running" /\ AcyclicFromStart) =>
              steps < Cardinality(ReachableFromStart))
    /\ ((fpc = "running" /\ AcyclicFromStart) ~> fpc = "done")

\* A run over the acyclic chain A -> B that took its two steps and returned.
C36_Witness ==
    /\ fpc = "done" /\ entry = "orchestrate" /\ AcyclicFromStart
    /\ ReachableFromStart = {"A", "B"} /\ steps = 2

\* --------------------------------------------- params of a run: properties
\* C33: at every step of a flow run the current node's params are replaced,
\* before its Prep, by the run's effective parameter set, whatever params the
\* node had (nothing of them is kept); every node the run visits observes
\* that same set, and without an override it equals the flow's own params.
C33_StepReplacesParams ==
    \A r \in 1..Len(runs) :
        /\ xpc[r] \in {"set", "mid"} => params[xcurr[r]] = runs[r]
        /\ \A i \in 1..Len(xseen[r]) : xseen[r][i][3] = runs[r]
        /\ (r = Len(runs) /\ entry = "orchestrate") => runs[r] = fParams

\* The second run, without an override on a flow without params, has visited
\* A and B, which the first run had left with the entry p: both observed no
\* entry at all.
C33_Witness ==
    /\ Len(runs) = 2 /\ xpc[2] = "done" /\ entry = "orchestrate"
    /\ runs[1] = [p |-> "over", q |-> Absent]
    /\ runs[2] = NoParams
    /\ Len(xseen[1]) = 4 /\ Len(xseen[2]) = 4
    /\ xseen[2][1] = <<"A", "Prep", NoParams, TheStore>>
    /\ xseen[2][3] = <<"B", "Prep", NoParams, TheStore>>

\* ------------------------------------------------ AsyncBatchNode: properties
\* The elements are processed one at a time, in input order: element i + 1 is
\* started only after the result of element i has been received.
OneElementAtATime ==
    /\ \A j \in 1..Len(bTrace) :
          bTrace[j] = <<IF j % 2 = 1 THEN "start" ELSE "recv", (j + 1) \div 2>>
    /\ Len(bChan) <= 1
    /\ bChan # << >> => (bpc = "returned" /\ Len(bTrace) = 2 * Len(bItems.list))

\* C34 (as claimed): AsyncBatchNode.execAsyncInternal over a list of length k
\* processes the elements one at a time in input order and delivers a single
\* list of length k whose i-th entry is the retry-wrapped result of the
\* node's ExecAsync for the i-th item; nil or a value that is no list
\* delivers an empty list.
C34_SequentialOrderedResults ==
    /\ OneElementAtATime
    /\ bpc = "returned" =>
          /\ Len(bChan) = 1 /\ bClosed
          /\ bChan[1].tag = "list"
          /\ IF bItems.tag = "list"
             THEN /\ Len(bChan[1].list) = Len(bItems.list)
                  /\ \A i \in 1..Len(bItems.list) :
                        bChan[1].list[i] = OwnAsyncRetryResult(bItems.list[i])
             ELSE bChan[1].list = << >>

\* What holds of the list delivered: its length, and that each entry is what
\* the retry executor's handle yielded for that element.
AsyncBatchDeliversOneList ==
    bpc = "returned" =>
        /\ Len(bChan) = 1 /\ bClosed
        /\ bChan[1].tag = "list"
        /\ bChan[1].list = bResults
        /\ Len(bChan[1].list) = (IF bItems.tag = "list" THEN Len(bItems.list) ELSE 0)

\* ------------------------------------- parallel batch flow: the barrier
\* Tasks that have not signalled the WaitGroup yet.
Unsignalled == {i \in 1..Len(gTask) : gSignals[i] = 0}

\* C35: AsyncParallelBatchFlow.runAsyncInternal reaches its PostAsync whenever
\* the flow runs it started terminate: every task spawned signals the barrier
\* exactly once, a task whose element is no parameter map included (it makes
\* no flow run), so the barrier releases and the handle gets exactly one value.
C35_BarrierReleasesOnce ==
    /\ [](/\ \A i \in 1..Len(gTask) :
              /\ gSignals[i] <= 1
              /\ gSignals[i] = 1 <=> gTask[i] = "done"
          /\ gwg = Cardinality(Unsignalled)
          /\ Len(runs) = Cardinality({i \in 1..Len(gTask) :
                                        gSlice[i].isMap /\ gTask[i] # "new"})
          /\ gPosts <= 1 /\ Len(gChan) = gPosts
          /\ gPosts = 1 =>
                /\ Len(gTask) = Len(gSlice)
                /\ \A i \in 1..Len(gTask) : gSignals[i] = 1
                /\ gClosed)
    /\ (gpc = "loop" ~> (gpc = "done" /\ gPosts = 1 /\ gChan = <<Nil>>))

\* Two tasks, the first over a value that is no map and the second over a
\* map: one flow run was made, both signalled, PostAsync ran once.
C35_Witness ==
    /\ gpc = "done" /\ Len(gSlice) = 2
    /\ ~gSlice[1].isMap /\ gSlice[2].isMap
    /\ gSignals = <<1, 1>> /\ Len(runs) = 1
    /\ gPosts = 1 /\ gChan = <<Nil>>

EngineStep ==
    \/ <<gpc, gi, gwg, gTask, gSignals, gPosts, gChan>>' # <<gpc, gi, gwg, gTask, gSignals, gPosts, gChan>>
    \/ <<xpc, xcurr, xseen, xstore>>' # <<xpc, xcurr, xseen, xstore>>
    \/ <<params, calls, runs>>' # <<params, calls, runs>>

====
